---- MODULE Spec2Model ----
(***************************************************************************)
(* The service worker of the PWA test application (sw.js): its install,   *)
(* activate and fetch listeners, driven by the browser's service-worker   *)
(* lifecycle, over the CacheStorage of the origin and a fallible network.  *)
(*                                                                         *)
(* One step of the model is one settled promise of a listener's chain,    *)
(* together with the reactions (then / catch callbacks) that run on it     *)
(* before the next task.                                                   *)
(***************************************************************************)
EXTENDS Naturals, Sequences, FiniteSets

(***************************************************************************)
(* Bounds                                                                  *)
(***************************************************************************)
\* Number of fetch events the browser dispatches in one run.
MaxFetch == 2

(***************************************************************************)
(* Configuration of sw.js                                                  *)
(***************************************************************************)
CACHE_NAME == "pwa-test-cache-v1"

OFFLINE_URL == "/offline.html"

CACHE_RESOURCES ==
    << "/", "/index.html", "/manifest.json", "/offline.html", "/css/style.css",
       "/js/app.js", "/js/install.js", "/js/push.js",
       "/icons/icon-192x192.png", "/icons/icon-512x512.png" >>

ManifestSet == { CACHE_RESOURCES[i] : i \in 1..Len(CACHE_RESOURCES) }

(***************************************************************************)
(* The environment: other namespaces of the origin, requests, responses   *)
(***************************************************************************)
\* The namespace of the previous deployment of sw.js (same code, older
\* CACHE_NAME), and a namespace left behind by something older still.
OLD_CACHE_NAME == "pwa-test-cache-v0"

LEGACY_CACHE_NAME == "legacy-cache"

AllNames == { CACHE_NAME, OLD_CACHE_NAME, LEGACY_CACHE_NAME }

\* A page outside the manifest, and a data resource outside the manifest.
PAGE_URL == "/about.html"

DATA_URL == "/api/data"

Urls == ManifestSet \cup { PAGE_URL, DATA_URL }

Request(url, method, destination) ==
    [ url |-> url, method |-> method, destination |-> destination ]

Requests ==
    { Request("/index.html", "GET", "document"),
      Request(PAGE_URL, "GET", "document"),
      Request(DATA_URL, "GET", ""),
      Request(DATA_URL, "POST", "") }

NoRequest == Request("", "", "")

Response(status, type, body) ==
    [ status |-> status, type |-> type, body |-> body, url |-> "" ]

\* The response as served for, or stored under, the resource `url`.
At(url, resp) == [ resp EXCEPT !.url = url ]

\* The value of a promise that resolved with undefined (Cache.match and
\* CacheStorage.match resolve with undefined when nothing matches).
Undefined == Response(0, "undefined", "")

\* What the network serves now, and what it served to the old deployment.
NetOk == Response(200, "basic", "v1")

StaleOk == Response(200, "basic", "v0")

\* The resource as the network serves it after it has changed once more.
NetNewer == Response(200, "basic", "v2")

NotFound == Response(404, "basic", "not found")

NetResponses == { NetOk, NetNewer, NotFound, Response(0, "opaque", "v1") }

\* What fetch(request) may resolve with: a page is served as it is or not
\* found; the data resource changes over time and may be answered with any
\* of the responses.
NetResponsesFor(req) == IF req.url = DATA_URL THEN NetResponses ELSE { NetOk, NotFound }

EmptyCache == [ u \in Urls |-> Undefined ]

(***************************************************************************)
(* State                                                                   *)
(***************************************************************************)
VARIABLES
    cacheNames,     \* CacheStorage: the names of the namespaces, in creation order (keys())
    cacheData,      \* CacheStorage: name -> url -> stored response (Undefined: no entry)
    swState,        \* lifecycle state of this instance
    installPc,      \* position in the install listener's promise chain
    installFailed,  \* whether pre-population (caches.open / cache.addAll) failed
    installResult,  \* the promise handed to event.waitUntil by the install listener
    skipWaitingFlag,\* self.skipWaiting() was called
    oldClients,     \* pages are open that the previous deployment controls
    activatePc,     \* position in the activate listener's promise chain
    deletions,      \* name -> state of the caches.delete(name) the activate listener started
    activateResult, \* the promise handed to event.waitUntil by the activate listener
    claimed,        \* self.clients.claim() was called
    handlers,       \* the fetch events dispatched so far: 1..MaxFetch -> handler state
    oldWrite,       \* the previous deployment's in-flight opportunistic cache write
    installLog,     \* outcome of each earlier install of a script with this CACHE_NAME
    inbox,          \* messages posted to this instance and not yet delivered
    updatePc,       \* app.js: position in showUpdateAvailable
    serviceWorkerReady, \* app.js: AppState.serviceWorkerReady
    controlled,     \* a service worker controls the page: its fetches are fetch events
    updPc,          \* app.js: position in updateCache
    updNames,       \* updateCache: the cache names still to visit, the current one first
    updReqs,        \* updateCache: the requests of the current cache still to visit
    updFetch,       \* updateCache: the fetch(request) in flight and its handling
    updClean,       \* updateCache: nothing failed and every response was ok so far
    InstallState,   \* install.js: promptEvent, canInstall, isInstalled, installSupported
    standalone,     \* the media query (display-mode: standalone) matches
    btnEnabled,     \* install.js: installBtn is not disabled
    clicks,         \* install.js: the calls of handleInstallClick so far
    promptCalls,    \* beforeinstallprompt event -> number of prompt() calls on it
    fired,          \* number of beforeinstallprompt events dispatched
    refreshing,     \* app.js: the flag of the controllerchange listener
    reloads,        \* app.js: number of window.location.reload() calls
    controllerChanges, \* number of controllerchange events dispatched
    push,           \* sw.js: the handling of the last push event, << >> before the first
    nclick,         \* sw.js: the handling of the last notificationclick, << >> before the first
    PushState,      \* install.js: isSupported, permission, subscription
    localStorage,   \* the keys of the items in localStorage
    notifyReq,      \* install.js: the last call of handleNotificationRequest, << >> before the first
    unsub           \* install.js: the last call of unsubscribeFromPush, << >> before the first

\* The state of the service worker and of the CacheStorage.
swVars ==
    << cacheNames, cacheData, swState, installPc, installFailed, installResult,
       skipWaitingFlag, oldClients, activatePc, deletions, activateResult, claimed,
       handlers, oldWrite >>

\* The update hand-shake between app.js and the instance, and the installs
\* that came before.
lifeVars == << installLog, inbox, updatePc >>

\* The manual cache refresh of app.js.
updVars == << serviceWorkerReady, controlled, updPc, updNames, updReqs, updFetch, updClean >>

\* The push and notificationclick listeners of sw.js.
pushVars == << push, nclick >>

\* The push subscription of the page (install.js).
subVars == << PushState, localStorage, notifyReq, unsub >>

\* The install button of install.js and the controllerchange listener of
\* app.js, with what they leave alone.
uiVars ==
    << InstallState, standalone, btnEnabled, clicks, promptCalls, fired,
       refreshing, reloads, controllerChanges, pushVars, subVars >>

\* What no listener of sw.js changes.
pageVars == << lifeVars, updVars, uiVars >>

vars == << swVars, pageVars >>

cacheVars == << cacheNames, cacheData >>

installVars == << installPc, installFailed, installResult, skipWaitingFlag >>

activateVars == << activatePc, deletions, activateResult, claimed >>

(***************************************************************************)
(* CacheStorage and Cache                                                  *)
(***************************************************************************)
SeqToSet(s) == { s[i] : i \in 1..Len(s) }

\* An open that makes the namespace anew: it is created last in order,
\* whether it existed or not.
CachesOpenAnew(names, name) == Append(SelectSeq(names, LAMBDA n : n # name), name)

\* caches.open(name): the namespace is created, last in order, when absent.
CachesOpen(names, name) ==
    IF name \in SeqToSet(names) THEN names ELSE Append(names, name)

\* caches.delete(name): the namespace leaves the storage, and its entries
\* with it.
CachesDeleteNames(names, name) == SelectSeq(names, LAMBDA n : n # name)

CachesDeleteData(data, name) == [ data EXCEPT ![name] = EmptyCache ]

\* A put that replaces the content of the namespace by the one entry.
CachePutClobbering(names, data, name, url, resp) ==
    IF name \in SeqToSet(names)
    THEN [ data EXCEPT ![name] = [ u \in Urls |-> IF u = url THEN resp ELSE Undefined ] ]
    ELSE data

\* A put that keeps the entry already stored (cache.add semantics of "first
\* write wins").
CachePutIfAbsent(names, data, name, url, resp) ==
    IF name \in SeqToSet(names) /\ data[name][url] = Undefined
    THEN [ data EXCEPT ![name][url] = resp ]
    ELSE data

\* cache.put(request, response) on the Cache object of `name`: the whole
\* value is replaced. A Cache object whose namespace has been deleted is no
\* longer part of the storage, and a put into it is not visible.
CachePut(names, data, name, url, resp) ==
    IF name \in SeqToSet(names) THEN [ data EXCEPT ![name][url] = resp ] ELSE data

\* An addAll that toggles: a path that is stored already is dropped.
CacheAddAllToggling(names, data, name, urls, resp) ==
    IF name \in SeqToSet(names)
    THEN [ data EXCEPT ![name] =
             [ u \in Urls |-> IF u \notin urls THEN @[u]
                              ELSE IF @[u] # Undefined THEN Undefined
                              ELSE At(u, resp) ] ]
    ELSE data

\* cache.addAll(urls) with every response fetched ok: all entries written.
CacheAddAll(names, data, name, urls, resp) ==
    IF name \in SeqToSet(names)
    THEN [ data EXCEPT ![name] = [ u \in Urls |-> IF u \in urls THEN At(u, resp) ELSE @[u] ] ]
    ELSE data

HasEntry(data, name, url) == data[name][url] # Undefined

\* CacheStorage.match(url): the namespaces are searched in creation order and
\* the first entry found is the result; undefined when none holds one.
RECURSIVE MatchFrom(_, _, _, _)
MatchFrom(names, data, url, i) ==
    IF i > Len(names) THEN Undefined
    ELSE IF HasEntry(data, names[i], url) THEN data[names[i]][url]
    ELSE MatchFrom(names, data, url, i + 1)

CachesMatch(names, data, url) == MatchFrom(names, data, url, 1)

(***************************************************************************)
(* Initial state: the script has been registered and its install event is *)
(* about to run. The origin may hold namespaces of earlier deployments.    *)
(***************************************************************************)
OldEntries ==
    [ u \in Urls |-> IF u \in { "/index.html", OFFLINE_URL, PAGE_URL }
                     THEN At(u, StaleOk) ELSE Undefined ]

LegacyEntries == [ u \in Urls |-> IF u = DATA_URL THEN At(u, StaleOk) ELSE Undefined ]

IdleHandler ==
    [ pc |-> "idle", req |-> NoRequest, lookup |-> "none", net |-> "none",
      resp |-> Undefined, write |-> "none" ]

SwInit ==
    /\ cacheNames \in { << >>, << LEGACY_CACHE_NAME, OLD_CACHE_NAME >> }
    /\ cacheData = [ n \in AllNames |->
                       IF n \notin SeqToSet(cacheNames) THEN EmptyCache
                       ELSE IF n = OLD_CACHE_NAME THEN OldEntries
                       ELSE LegacyEntries ]
    /\ swState = "installing"
    /\ installPc = "open"
    /\ installFailed = FALSE
    /\ installResult = "pending"
    /\ skipWaitingFlag = FALSE
    /\ oldClients = (OLD_CACHE_NAME \in SeqToSet(cacheNames))
    /\ activatePc = "idle"
    /\ deletions = [ n \in AllNames |-> "none" ]
    /\ activateResult = "pending"
    /\ claimed = FALSE
    /\ handlers = [ h \in 1..MaxFetch |-> IdleHandler ]
    /\ oldWrite \in IF OLD_CACHE_NAME \in SeqToSet(cacheNames)
                    THEN { "none", "open" } ELSE { "none" }

\* app.js has shown no update prompt and nothing was posted to the instance,
\* which is the first to install a script with this CACHE_NAME.
LifeInit ==
    /\ installLog = << >>
    /\ inbox = << >>
    /\ updatePc = "idle"

\* updateCache is not running.
UpdIdle ==
    /\ updPc = "idle"
    /\ updNames = << >>
    /\ updReqs = << >>
    /\ updFetch = IdleHandler
    /\ updClean = TRUE

\* Number of clicks on the install button in one run.
MaxClick == 2

\* Number of beforeinstallprompt events the browser dispatches in one run.
MaxPrompt == 2

\* Number of controllerchange events dispatched to one document.
MaxControllerChange == 2

\* InstallState.promptEvent === null
NoEvent == 0

IdleClick == [ pc |-> "idle", ev |-> NoEvent, again |-> FALSE ]

\* event.data of a push event without payload
NoPayload == [ form |-> "none", title |-> "", body |-> "", icon |-> "" ]

\* let title = ..., body = ..., icon = ... of the push listener
DEFAULT_TITLE == "PWA test"
DEFAULT_BODY == "push test"
DEFAULT_ICON == "/icons/icon-192x192.png"

Notification(title, body, icon) == [ title |-> title, body |-> body, icon |-> icon ]

\* PushState.subscription === null
NoSubscription == 0

\* The item sendSubscriptionToServer stores.
PUSH_SUBSCRIPTION == "push-subscription"

\* const PushState = { isSupported: false, permission: 'default', subscription: null }
\* and no call of its functions.
SubscriptionInit ==
    /\ PushState = [ isSupported |-> FALSE, permission |-> "default",
                     subscription |-> NoSubscription ]
    /\ localStorage = { }
    /\ notifyReq = << >>
    /\ unsub = << >>

\* No push event was dispatched and no notification was clicked.
PushIdle ==
    /\ push = << >>
    /\ nclick = << >>

PushInit == PushIdle /\ SubscriptionInit

\* The page scripts have run their DOMContentLoaded listeners, in a window
\* whose display mode is standalone or not: no prompt event was received and
\* the install button is disabled.
InstallUiInit(mode) ==
    /\ InstallState = [ promptEvent |-> NoEvent, canInstall |-> FALSE,
                        isInstalled |-> mode, installSupported |-> TRUE ]
    /\ standalone = mode
    /\ btnEnabled = FALSE
    /\ clicks = [ c \in 1..MaxClick |-> IdleClick ]
    /\ promptCalls = [ e \in 1..MaxPrompt |-> 0 ]
    /\ fired = 0
    /\ refreshing = FALSE
    /\ reloads = 0
    /\ controllerChanges = 0

\* The page and the listeners of the instance before any push.
UiInitIn(mode) == InstallUiInit(mode) /\ PushInit

\* The page in a browser tab.
UiInit == UiInitIn(FALSE)

PageInit ==
    /\ LifeInit
    /\ serviceWorkerReady = FALSE
    /\ controlled = FALSE
    /\ UpdIdle
    /\ UiInit

Init == SwInit /\ PageInit

(***************************************************************************)
(* install listener                                                        *)
(***************************************************************************)
\* .catch((error) => { log(...) }): the rejection is logged and the chain
\* continues fulfilled with undefined.
InstallCatch == "fulfilled"

\* caches.open(CACHE_NAME) settles.
InstallOpen ==
    /\ swState = "installing"
    /\ installPc = "open"
    /\ \E ok \in BOOLEAN :
         IF ok
         THEN /\ cacheNames' = CachesOpen(cacheNames, CACHE_NAME)
              /\ installPc' = "addAll"
              /\ UNCHANGED << installFailed, installResult >>
         ELSE /\ installFailed' = TRUE
              /\ installResult' = InstallCatch
              /\ installPc' = "settled"
              /\ UNCHANGED cacheNames
    /\ UNCHANGED << cacheData, swState, skipWaitingFlag, oldClients, activateVars,
                    handlers, oldWrite >>
    /\ UNCHANGED pageVars

\* cache.addAll(CACHE_RESOURCES) settles: with every path fetched and stored,
\* or rejected with nothing stored. On success the next reaction calls
\* self.skipWaiting().
InstallAddAll ==
    /\ swState = "installing"
    /\ installPc = "addAll"
    /\ \E ok \in BOOLEAN :
         IF ok
         THEN /\ cacheData' = CacheAddAll(cacheNames, cacheData, CACHE_NAME,
                                          ManifestSet, NetOk)
              /\ skipWaitingFlag' = TRUE
              /\ installResult' = "fulfilled"
              /\ UNCHANGED installFailed
         ELSE /\ installFailed' = TRUE
              /\ installResult' = InstallCatch
              /\ UNCHANGED << cacheData, skipWaitingFlag >>
    /\ installPc' = "settled"
    /\ UNCHANGED << cacheNames, swState, oldClients, activateVars, handlers, oldWrite >>
    /\ UNCHANGED pageVars

\* A listener that does not hand its chain to event.waitUntil: the install
\* is over as soon as the listener returns, with the chain still running.
InstallDoneAtOnce ==
    /\ swState = "installing"
    /\ installPc \in { "open", "addAll", "settled" }
    /\ swState' = "installed"
    /\ UNCHANGED << cacheVars, installVars, oldClients, activateVars, handlers, oldWrite >>
    /\ UNCHANGED pageVars

\* The promise given to event.waitUntil has settled: the instance becomes
\* installed (waiting) when it was fulfilled and redundant when it was rejected.
InstallDone ==
    /\ swState = "installing"
    /\ installPc = "settled"
    /\ swState' = IF installResult = "fulfilled" THEN "installed" ELSE "redundant"
    /\ installPc' = "done"
    /\ UNCHANGED << cacheVars, installFailed, installResult, skipWaitingFlag,
                    oldClients, activateVars, handlers, oldWrite >>
    /\ UNCHANGED pageVars

(***************************************************************************)
(* Lifecycle driver: from installed (waiting) to activating                *)
(***************************************************************************)
\* The pages the previous deployment controls are closed.
OldClientsClose ==
    /\ oldClients
    /\ swState \in { "installing", "installed" }
    /\ oldClients' = FALSE
    /\ UNCHANGED << cacheVars, swState, installVars, activateVars, handlers, oldWrite >>
    /\ UNCHANGED pageVars

\* The waiting instance may activate once no other instance controls open
\* pages, or at once when it asked to skip waiting.
MayActivate == skipWaitingFlag \/ ~oldClients

\* The activate event is dispatched; the listener calls caches.keys().
ActivateStart ==
    /\ swState = "installed"
    /\ MayActivate
    /\ swState' = "activating"
    /\ activatePc' = "keys"
    /\ oldClients' = FALSE
    /\ UNCHANGED << cacheVars, installVars, deletions, activateResult, claimed,
                    handlers, oldWrite >>
    /\ UNCHANGED pageVars

(***************************************************************************)
(* activate listener                                                       *)
(***************************************************************************)
\* A filter that spares one stale namespace (a slip in the comparison).
StaleCachesSparingLegacy(names) ==
    SelectSeq(names, LAMBDA n : n # CACHE_NAME /\ n # LEGACY_CACHE_NAME)

\* cacheNames.filter((cacheName) => cacheName !== CACHE_NAME)
StaleCaches(names) == SelectSeq(names, LAMBDA n : n # CACHE_NAME)

\* Promise.all(deletePromises): rejected as soon as one of them is rejected,
\* fulfilled once all of them are fulfilled.
PromiseAll(ds) ==
    IF \E n \in AllNames : ds[n] = "rejected" THEN "rejected"
    ELSE IF \E n \in AllNames : ds[n] = "pending" THEN "pending"
    ELSE "fulfilled"

\* .then(() => { ...; return self.clients.claim(); }) runs when Promise.all is
\* fulfilled; a rejection passes it by and rejects the chain.
ClaimOn(all) == all = "fulfilled"

\* The reactions to Promise.all settling, while the chain is still waiting
\* for it.
ActivateReact(ds) ==
    IF activatePc' = "all" \/ activatePc = "settled" \/ activatePc = "done"
    THEN UNCHANGED << activateResult, claimed >>
    ELSE /\ claimed' = ClaimOn(PromiseAll(ds))
         /\ activateResult' = PromiseAll(ds)

\* caches.keys() resolves; a caches.delete is started for every other
\* namespace and the chain waits for Promise.all of them.
ActivateKeys ==
    /\ swState = "activating"
    /\ activatePc = "keys"
    /\ deletions' = [ n \in AllNames |->
                        IF n \in SeqToSet(StaleCaches(cacheNames)) THEN "pending"
                        ELSE "none" ]
    /\ activatePc' = IF PromiseAll(deletions') = "pending" THEN "all" ELSE "settled"
    /\ ActivateReact(deletions')
    /\ UNCHANGED << cacheVars, swState, installVars, oldClients, handlers, oldWrite >>
    /\ UNCHANGED pageVars

\* A deletion that waits for the write in flight into the namespace.
DeleteSettleAfterWrite(n) ==
    /\ deletions[n] = "pending"
    /\ n = OLD_CACHE_NAME => oldWrite \notin { "open", "put" }
    /\ \E ok \in BOOLEAN :
         IF ok
         THEN /\ deletions' = [ deletions EXCEPT ![n] = "fulfilled" ]
              /\ cacheNames' = CachesDeleteNames(cacheNames, n)
              /\ cacheData' = CachesDeleteData(cacheData, n)
         ELSE /\ deletions' = [ deletions EXCEPT ![n] = "rejected" ]
              /\ UNCHANGED cacheVars
    /\ activatePc' = IF activatePc = "all" /\ PromiseAll(deletions') # "pending"
                     THEN "settled" ELSE activatePc
    /\ ActivateReact(deletions')
    /\ UNCHANGED << swState, installVars, oldClients, handlers, oldWrite >>
    /\ UNCHANGED pageVars

\* One caches.delete(name) settles: the namespace is removed, or the deletion
\* fails and the namespace stays.
DeleteSettle(n) ==
    /\ deletions[n] = "pending"
    /\ \E ok \in BOOLEAN :
         IF ok
         THEN /\ deletions' = [ deletions EXCEPT ![n] = "fulfilled" ]
              /\ cacheNames' = CachesDeleteNames(cacheNames, n)
              /\ cacheData' = CachesDeleteData(cacheData, n)
         ELSE /\ deletions' = [ deletions EXCEPT ![n] = "rejected" ]
              /\ UNCHANGED cacheVars
    /\ activatePc' = IF activatePc = "all" /\ PromiseAll(deletions') # "pending"
                     THEN "settled" ELSE activatePc
    /\ ActivateReact(deletions')
    /\ UNCHANGED << swState, installVars, oldClients, handlers, oldWrite >>
    /\ UNCHANGED pageVars

\* The promise given to event.waitUntil has settled, fulfilled or rejected:
\* the instance becomes activated.
ActivateDone ==
    /\ swState = "activating"
    /\ activatePc = "settled"
    /\ swState' = "activated"
    /\ activatePc' = "done"
    /\ UNCHANGED << cacheVars, installVars, oldClients, deletions, activateResult,
                    claimed, handlers, oldWrite >>
    /\ UNCHANGED pageVars

(***************************************************************************)
(* fetch listener                                                          *)
(***************************************************************************)
\* new Response('...', { status: 408, statusText: 'Offline' })
Synthetic == Response(408, "default", "offline")

\* A lookup in the current namespace alone:
\* caches.open(CACHE_NAME).then((cache) => cache.match(event.request))
LookupCurrentOnly(names, data, req) ==
    IF CACHE_NAME \in SeqToSet(names) THEN data[CACHE_NAME][req.url] ELSE Undefined

\* caches.match(event.request)
Lookup(names, data, req) == CachesMatch(names, data, req.url)

\* A test that forgets the status.
IsCacheableAnyStatus(resp) == resp # Undefined /\ resp.type = "basic"

\* !response || response.status !== 200 || response.type !== 'basic' is false
IsCacheable(resp) == resp # Undefined /\ resp.status = 200 /\ resp.type = "basic"

Resolve(hd, resp) == [ hd EXCEPT !.pc = "resolved", !.resp = resp ]

\* A catch that rethrows for the requests that are not documents.
CatchRethrowing(hd) ==
    IF hd.req.destination = "document"
    THEN [ hd EXCEPT !.pc = "offline" ]
    ELSE [ hd EXCEPT !.pc = "rejected" ]

\* .catch(() => { ... }): a document request goes on to
\* caches.match(OFFLINE_URL), any other is answered with the synthetic response.
Catch(hd) ==
    IF hd.req.destination = "document"
    THEN [ hd EXCEPT !.pc = "offline" ]
    ELSE Resolve(hd, Synthetic)

\* A listener that goes to the network whatever the lookup found.
OnLookupNetworkFirst(hd, cached) ==
    [ hd EXCEPT !.lookup = IF cached # Undefined THEN "hit" ELSE "miss",
                !.net = "pending", !.pc = "fetch" ]

\* (cachedResponse) => { ... }: a cached response is returned; otherwise
\* fetch(event.request) is called.
OnLookup(hd, cached) ==
    IF cached # Undefined
    THEN Resolve([ hd EXCEPT !.lookup = "hit" ], cached)
    ELSE [ hd EXCEPT !.lookup = "miss", !.net = "pending", !.pc = "fetch" ]

\* A listener that returns the response and stores nothing.
OnResponseNotStoring(hd, resp) == Resolve([ hd EXCEPT !.net = "done" ], resp)

\* A listener that returns the promise of the write, so that the response is
\* held back until the write is over.
OnResponseAwaitingWrite(hd, resp) ==
    IF IsCacheable(resp)
    THEN [ hd EXCEPT !.net = "done", !.write = "open", !.pc = "writing", !.resp = resp ]
    ELSE Resolve([ hd EXCEPT !.net = "done" ], resp)

\* (response) => { ... }: the response is returned; a cacheable one is cloned
\* and caches.open(CACHE_NAME) is called for the write, which is not awaited.
OnResponse(hd, resp) ==
    IF IsCacheable(resp)
    THEN Resolve([ hd EXCEPT !.net = "done", !.write = "open" ], resp)
    ELSE Resolve([ hd EXCEPT !.net = "done" ], resp)

\* A listener without the test of the method.
OnFetchAnyMethod(req) == [ IdleHandler EXCEPT !.pc = "match", !.req = req ]

\* A fetch event is dispatched to the activated instance. A request that is
\* not a GET is left to the browser; for a GET, event.respondWith is called
\* with the chain starting at caches.match(event.request).
OnFetch(req) ==
    IF req.method # "GET"
    THEN [ IdleHandler EXCEPT !.pc = "passthrough", !.req = req ]
    ELSE [ IdleHandler EXCEPT !.pc = "match", !.req = req ]

FetchEvent(h) ==
    /\ swState = "activated"
    /\ handlers[h].pc = "idle"
    /\ \A k \in 1..MaxFetch : k < h => handlers[k].pc # "idle"
    /\ \E req \in Requests : handlers' = [ handlers EXCEPT ![h] = OnFetch(req) ]
    /\ UNCHANGED << cacheVars, swState, installVars, oldClients, activateVars, oldWrite >>
    /\ UNCHANGED pageVars

\* caches.match(event.request) settles.
FetchMatchSettle(h) ==
    /\ handlers[h].pc = "match"
    /\ \E ok \in BOOLEAN :
         handlers' = [ handlers EXCEPT ![h] =
                         IF ok THEN OnLookup(@, Lookup(cacheNames, cacheData, @.req))
                         ELSE Catch([ @ EXCEPT !.lookup = "failed" ]) ]
    /\ UNCHANGED << cacheVars, swState, installVars, oldClients, activateVars, oldWrite >>
    /\ UNCHANGED pageVars

\* fetch(event.request) settles: with a response, or with a network failure.
FetchNetSettle(h) ==
    /\ handlers[h].pc = "fetch"
    /\ \/ \E resp \in NetResponsesFor(handlers[h].req) :
            handlers' = [ handlers EXCEPT ![h] = OnResponse(@, At(@.req.url, resp)) ]
       \/ handlers' = [ handlers EXCEPT ![h] = Catch([ @ EXCEPT !.net = "failed" ]) ]
    /\ UNCHANGED << cacheVars, swState, installVars, oldClients, activateVars, oldWrite >>
    /\ UNCHANGED pageVars

\* caches.match(OFFLINE_URL)
OfflineLookup(names, data) == CachesMatch(names, data, OFFLINE_URL)

\* caches.match(OFFLINE_URL) settles: its value, an entry or undefined, is the
\* value of the chain; its failure rejects the chain.
FetchOfflineSettle(h) ==
    /\ handlers[h].pc = "offline"
    /\ \E ok \in BOOLEAN :
         handlers' = [ handlers EXCEPT ![h] =
                         IF ok THEN Resolve(@, OfflineLookup(cacheNames, cacheData))
                         ELSE [ @ EXCEPT !.pc = "rejected" ] ]
    /\ UNCHANGED << cacheVars, swState, installVars, oldClients, activateVars, oldWrite >>
    /\ UNCHANGED pageVars

\* caches.open(CACHE_NAME).then((cache) => { cache.put(...); log(...) }) has
\* no catch and the promise of cache.put is dropped: a rejection of either is
\* handled by nothing and logged by nothing (an unhandled rejection).
WriteCatch == "unhandled"

\* An opportunistic write that opens the namespace of the old deployment.
FetchWriteOpenStale(h) ==
    /\ handlers[h].write = "open"
    /\ cacheNames' = CachesOpen(cacheNames, OLD_CACHE_NAME)
    /\ handlers' = [ handlers EXCEPT ![h].write = "put" ]
    /\ UNCHANGED << cacheData, swState, installVars, oldClients, activateVars, oldWrite >>
    /\ UNCHANGED pageVars

\* caches.open(CACHE_NAME) of the opportunistic write settles; on success
\* cache.put(event.request, responseToCache) is called.
FetchWriteOpen(h) ==
    /\ handlers[h].write = "open"
    /\ \E ok \in BOOLEAN :
         IF ok
         THEN /\ cacheNames' = CachesOpen(cacheNames, CACHE_NAME)
              /\ handlers' = [ handlers EXCEPT ![h].write = "put" ]
         ELSE /\ handlers' = [ handlers EXCEPT ![h].write = WriteCatch ]
              /\ UNCHANGED cacheNames
    /\ UNCHANGED << cacheData, swState, installVars, oldClients, activateVars, oldWrite >>
    /\ UNCHANGED pageVars

\* cache.put(event.request, responseToCache) settles.
FetchWritePut(h) ==
    /\ handlers[h].write = "put"
    /\ \E ok \in BOOLEAN :
         IF ok
         THEN /\ cacheData' = CachePut(cacheNames, cacheData, CACHE_NAME,
                                       handlers[h].req.url, handlers[h].resp)
              /\ handlers' = [ handlers EXCEPT ![h].write = "done" ]
         ELSE /\ handlers' = [ handlers EXCEPT ![h].write = WriteCatch ]
              /\ UNCHANGED cacheData
    /\ UNCHANGED << cacheNames, swState, installVars, oldClients, activateVars, oldWrite >>
    /\ UNCHANGED pageVars

(***************************************************************************)
(* The previous deployment: the same fetch listener with the older         *)
(* CACHE_NAME, whose opportunistic write may still be in flight.           *)
(***************************************************************************)
OldWriteOpen ==
    /\ oldWrite = "open"
    /\ \E ok \in BOOLEAN :
         IF ok
         THEN /\ cacheNames' = CachesOpen(cacheNames, OLD_CACHE_NAME)
              /\ oldWrite' = "put"
         ELSE /\ oldWrite' = "settled"
              /\ UNCHANGED cacheNames
    /\ UNCHANGED << cacheData, swState, installVars, oldClients, activateVars, handlers >>
    /\ UNCHANGED pageVars

OldWritePut ==
    /\ oldWrite = "put"
    /\ \E ok \in BOOLEAN :
         cacheData' = IF ok THEN CachePut(cacheNames, cacheData, OLD_CACHE_NAME,
                                          DATA_URL, At(DATA_URL, StaleOk))
                      ELSE cacheData
    /\ oldWrite' = "settled"
    /\ UNCHANGED << cacheNames, swState, installVars, oldClients, activateVars, handlers >>
    /\ UNCHANGED pageVars

Next ==
    \/ InstallOpen
    \/ InstallAddAll
    \/ InstallDone
    \/ OldClientsClose
    \/ ActivateStart
    \/ ActivateKeys
    \/ \E n \in AllNames : DeleteSettle(n)
    \/ ActivateDone
    \/ \E h \in 1..MaxFetch : FetchEvent(h)
    \/ \E h \in 1..MaxFetch : FetchMatchSettle(h)
    \/ \E h \in 1..MaxFetch : FetchNetSettle(h)
    \/ \E h \in 1..MaxFetch : FetchOfflineSettle(h)
    \/ \E h \in 1..MaxFetch : FetchWriteOpen(h)
    \/ \E h \in 1..MaxFetch : FetchWritePut(h)
    \/ OldWriteOpen
    \/ OldWritePut

Spec == Init /\ [][Next]_vars

\* The instance's install and activate next to the late write of the old
\* deployment, with no fetch event: the fetch listener of the instance opens
\* and writes CACHE_NAME only, and never deletes.
NextTeardown ==
    \/ InstallOpen
    \/ InstallAddAll
    \/ InstallDone
    \/ OldClientsClose
    \/ ActivateStart
    \/ ActivateKeys
    \/ \E n \in AllNames : DeleteSettle(n)
    \/ ActivateDone
    \/ OldWriteOpen
    \/ OldWritePut

SpecTeardown == Init /\ [][NextTeardown]_vars

(***************************************************************************)
(* The life of a registration: the message listener of sw.js, the update   *)
(* hand-shake of app.js, and a later install of a script that kept the     *)
(* same CACHE_NAME. No fetch event is dispatched here.                     *)
(***************************************************************************)
\* Number of installs of a script with this CACHE_NAME in one run.
MaxInstall == 2

\* Number of undelivered messages other code may have posted.
MaxInbox == 1

\* A message whose event.data is null.
NoData == "nodata"

SKIP_WAITING == "SKIP_WAITING"

\* Messages that other code posts to the instance.
OtherMessages == { "PING", NoData }

\* A test that takes any message with data for the request.
IsSkipWaitingAnyType(data) == data # NoData

\* event.data && event.data.type === 'SKIP_WAITING'
IsSkipWaiting(data) == data # NoData /\ data = SKIP_WAITING

\* The message listener handles the oldest undelivered message:
\* self.skipWaiting() is called for a SKIP_WAITING message.
Message ==
    /\ inbox # << >>
    /\ skipWaitingFlag' = (skipWaitingFlag \/ IsSkipWaiting(Head(inbox)))
    /\ inbox' = Tail(inbox)
    /\ UNCHANGED << cacheVars, swState, installPc, installFailed, installResult,
                    oldClients, activateVars, handlers, oldWrite, installLog, updatePc, updVars >>
    /\ UNCHANGED uiVars

\* Some other code posts a message to the instance.
PostOther ==
    /\ Len(inbox) < MaxInbox
    /\ \E data \in OtherMessages : inbox' = Append(inbox, data)
    /\ UNCHANGED << swVars, installLog, updatePc, updVars >>
    /\ UNCHANGED uiVars

\* registration.waiting is this instance.
Waiting == swState = "installed"

\* A prompt shown for any worker, waiting or not.
UpdateFoundAnyState == swState \in { "installing", "installed", "activating" }

\* worker.state === 'installed' in the statechange listener, or
\* registration.waiting at registration: showUpdateAvailable is called.
UpdateFound == Waiting

\* showUpdateAvailable(): confirm(...) returns the user's answer; on a yes
\* navigator.serviceWorker.getRegistration() is called.
ShowUpdateAvailable ==
    /\ UpdateFound
    /\ updatePc = "idle"
    /\ \E yes \in BOOLEAN :
         updatePc' = IF yes THEN "getRegistration" ELSE "declined"
    /\ UNCHANGED << swVars, installLog, inbox, updVars >>
    /\ UNCHANGED uiVars

\* A hand-shake that posts without looking at registration.waiting.
PostIfWaitingAlways(box) == Append(box, SKIP_WAITING)

\* if (registration.waiting) registration.waiting.postMessage({ type: 'SKIP_WAITING' })
PostIfWaiting(box) == IF Waiting THEN Append(box, SKIP_WAITING) ELSE box

\* getRegistration() resolves.
GetRegistrationSettle ==
    /\ updatePc = "getRegistration"
    /\ inbox' = PostIfWaiting(inbox)
    /\ updatePc' = IF inbox' # inbox THEN "posted" ELSE "notWaiting"
    /\ UNCHANGED << swVars, installLog, updVars >>
    /\ UNCHANGED uiVars

\* The update check finds a changed script whose CACHE_NAME is the same: a
\* new instance starts installing and takes the place of this one, which
\* goes on controlling the pages it controlled.
Reinstall ==
    /\ swState \in { "installed", "activated" }
    /\ Len(installLog) + 1 < MaxInstall
    /\ \A n \in AllNames : deletions[n] # "pending"
    /\ installLog' = Append(installLog, IF installFailed THEN "failed" ELSE "ok")
    /\ swState' = "installing"
    /\ installPc' = "open"
    /\ installFailed' = FALSE
    /\ installResult' = "pending"
    /\ skipWaitingFlag' = FALSE
    /\ IF swState = "activated" THEN oldClients' \in BOOLEAN ELSE UNCHANGED oldClients
    /\ activatePc' = "idle"
    /\ deletions' = [ n \in AllNames |-> "none" ]
    /\ activateResult' = "pending"
    /\ claimed' = FALSE
    /\ inbox' = << >>
    /\ updatePc' = IF updatePc = "getRegistration" THEN updatePc ELSE "idle"
    /\ UNCHANGED << cacheVars, handlers, oldWrite, updVars >>
    /\ UNCHANGED uiVars

InitLifecycle == SwInit /\ oldWrite = "none" /\ PageInit

NextLifecycle ==
    \/ InstallOpen
    \/ InstallAddAll
    \/ InstallDone
    \/ OldClientsClose
    \/ ActivateStart
    \/ ActivateKeys
    \/ \E n \in AllNames : DeleteSettle(n)
    \/ ActivateDone
    \/ Message
    \/ PostOther
    \/ ShowUpdateAvailable
    \/ GetRegistrationSettle
    \/ Reinstall

SpecLifecycle == InitLifecycle /\ [][NextLifecycle]_vars

(***************************************************************************)
(* app.js: updateCache, the manual cache refresh of the page. The instance *)
(* is activated; when it controls the page, every fetch(request) of the    *)
(* page is a fetch event of its cache-first listener.                      *)
(***************************************************************************)
\* The state of the instance other than the storage.
workerVars == << swState, installVars, oldClients, activateVars, handlers, oldWrite >>

\* cache.keys(): the requests of the namespace, in a fixed order.
UrlOrder == CACHE_RESOURCES \o << PAGE_URL, DATA_URL >>

CacheKeys(data, name) == SelectSeq(UrlOrder, LAMBDA u : HasEntry(data, name, u))

\* fetch(request) called by the page: a fetch event of the listener when the
\* instance controls the page, a call of the network otherwise.
PageFetch(url) ==
    IF controlled
    THEN OnFetch(Request(url, "GET", ""))
    ELSE [ IdleHandler EXCEPT !.pc = "fetch", !.req = Request(url, "GET", ""),
                              !.net = "pending" ]

\* A test that takes every response for ok.
OkWhatever(resp) == resp # Undefined

\* response.ok
Ok(resp) == resp # Undefined /\ resp.status = 200

\* The for loops go on: the next request of the current cache is fetched,
\* or the next cache is opened, or updateCache is done.
Advance ==
    IF Len(updReqs) > 1
    THEN /\ updReqs' = Tail(updReqs)
         /\ updFetch' = PageFetch(updReqs[2])
         /\ updPc' = "fetch"
         /\ UNCHANGED updNames
    ELSE /\ updReqs' = << >>
         /\ updFetch' = IdleHandler
         /\ updNames' = Tail(updNames)
         /\ updPc' = IF Len(updNames) > 1 THEN "open" ELSE "done"

\* The cache button is clicked, or the page comes back online: without a
\* registered service worker updateCache returns at once; otherwise
\* registration.update() is called.
UpdateCacheStart ==
    /\ updPc = "idle"
    /\ updPc' = IF serviceWorkerReady THEN "update" ELSE "noWorker"
    /\ UNCHANGED << cacheVars, workerVars, lifeVars, serviceWorkerReady, controlled,
                    updNames, updReqs, updFetch, updClean >>
    /\ UNCHANGED uiVars

\* registration.update() settles; on success caches.keys() is called.
UpdUpdateSettle ==
    /\ updPc = "update"
    /\ \E ok \in BOOLEAN :
         /\ updPc' = IF ok THEN "keys" ELSE "error"
         /\ updClean' = (updClean /\ ok)
    /\ UNCHANGED << cacheVars, workerVars, lifeVars, serviceWorkerReady, controlled,
                    updNames, updReqs, updFetch >>
    /\ UNCHANGED uiVars

\* caches.keys() settles; the first cache is opened.
UpdKeysSettle ==
    /\ updPc = "keys"
    /\ \E ok \in BOOLEAN :
         /\ updNames' = IF ok THEN cacheNames ELSE << >>
         /\ updPc' = IF ~ok THEN "error" ELSE IF cacheNames = << >> THEN "done" ELSE "open"
         /\ updClean' = (updClean /\ ok)
    /\ UNCHANGED << cacheVars, workerVars, lifeVars, serviceWorkerReady, controlled,
                    updReqs, updFetch >>
    /\ UNCHANGED uiVars

\* caches.open(cacheName) settles; cache.keys() is called.
UpdOpenSettle ==
    /\ updPc = "open"
    /\ \E ok \in BOOLEAN :
         /\ cacheNames' = IF ok THEN CachesOpen(cacheNames, Head(updNames)) ELSE cacheNames
         /\ updPc' = IF ok THEN "cacheKeys" ELSE "error"
         /\ updClean' = (updClean /\ ok)
    /\ UNCHANGED << cacheData, workerVars, lifeVars, serviceWorkerReady, controlled,
                    updNames, updReqs, updFetch >>
    /\ UNCHANGED uiVars

\* cache.keys() settles; the first request is fetched.
UpdCacheKeysSettle ==
    /\ updPc = "cacheKeys"
    /\ \E ok \in BOOLEAN :
         IF ok
         THEN /\ updClean' = updClean
              /\ IF CacheKeys(cacheData, Head(updNames)) = << >>
                 THEN /\ updReqs' = << >>
                      /\ updFetch' = IdleHandler
                      /\ updNames' = Tail(updNames)
                      /\ updPc' = IF Len(updNames) > 1 THEN "open" ELSE "done"
                 ELSE /\ updReqs' = CacheKeys(cacheData, Head(updNames))
                      /\ updFetch' = PageFetch(Head(updReqs'))
                      /\ updPc' = "fetch"
                      /\ UNCHANGED updNames
         ELSE /\ updPc' = "error"
              /\ updClean' = FALSE
              /\ UNCHANGED << updNames, updReqs, updFetch >>
    /\ UNCHANGED << cacheVars, workerVars, lifeVars, serviceWorkerReady, controlled >>
    /\ UNCHANGED uiVars

\* The caches.match(event.request) of the listener handling the page's
\* fetch settles.
UpdMatchSettle ==
    /\ updPc = "fetch"
    /\ updFetch.pc = "match"
    /\ \E ok \in BOOLEAN :
         /\ updFetch' = IF ok THEN OnLookup(updFetch, Lookup(cacheNames, cacheData, updFetch.req))
                        ELSE Catch([ updFetch EXCEPT !.lookup = "failed" ])
         /\ updClean' = (updClean /\ ok)
    /\ UNCHANGED << cacheVars, workerVars, lifeVars, serviceWorkerReady, controlled,
                    updPc, updNames, updReqs >>
    /\ UNCHANGED uiVars

\* The call of the network settles: the page's own when no instance
\* controls it, the listener's fetch(event.request) otherwise. The network
\* serves the current version of the resource, or misses it, or fails (no
\* response: Undefined).
UpdNetSettle ==
    /\ updPc = "fetch"
    /\ updFetch.pc = "fetch"
    /\ \E out \in { NetNewer, NotFound, Undefined } :
         /\ updFetch' =
              IF updFetch.lookup = "none"
              THEN IF out = Undefined THEN [ updFetch EXCEPT !.net = "failed", !.pc = "rejected" ]
                   ELSE Resolve([ updFetch EXCEPT !.net = "done" ], At(updFetch.req.url, out))
              ELSE IF out = Undefined THEN Catch([ updFetch EXCEPT !.net = "failed" ])
                   ELSE OnResponse(updFetch, At(updFetch.req.url, out))
         /\ updClean' = (updClean /\ Ok(out))
    /\ UNCHANGED << cacheVars, workerVars, lifeVars, serviceWorkerReady, controlled,
                    updPc, updNames, updReqs >>
    /\ UNCHANGED uiVars

\* await fetch(request) is over: an ok response is put into the cache; any
\* other response, and a failure (logged by the inner catch), leaves the
\* entry and the loop goes on.
UpdFetchDone ==
    /\ updPc = "fetch"
    /\ updFetch.pc \in { "resolved", "rejected" }
    /\ IF updFetch.pc = "resolved" /\ Ok(updFetch.resp)
       THEN /\ updPc' = "put"
            /\ UNCHANGED << updNames, updReqs, updFetch >>
       ELSE Advance
    /\ UNCHANGED << cacheVars, workerVars, lifeVars, serviceWorkerReady, controlled,
                    updClean >>
    /\ UNCHANGED uiVars

\* cache.put(request, response) settles; the loop goes on (a failure is
\* logged by the inner catch).
UpdPutSettle ==
    /\ updPc = "put"
    /\ \E ok \in BOOLEAN :
         /\ cacheData' = IF ok THEN CachePut(cacheNames, cacheData, Head(updNames),
                                             Head(updReqs), updFetch.resp)
                         ELSE cacheData
         /\ updClean' = (updClean /\ ok)
    /\ Advance
    /\ UNCHANGED << cacheNames, workerVars, lifeVars, serviceWorkerReady, controlled >>
    /\ UNCHANGED uiVars

\* The instance is activated with the manifest pre-cached and the old
\* namespaces deleted; the data resource may have been cached on the way.
InitUpdateCache ==
    /\ cacheNames = << CACHE_NAME >>
    /\ \E withData \in BOOLEAN :
         cacheData = [ n \in AllNames |->
                         IF n # CACHE_NAME THEN EmptyCache
                         ELSE [ u \in Urls |->
                                  IF u \in ManifestSet \/ (withData /\ u = DATA_URL)
                                  THEN At(u, NetOk) ELSE Undefined ] ]
    /\ swState = "activated"
    /\ installPc = "done"
    /\ installFailed = FALSE
    /\ installResult = "fulfilled"
    /\ skipWaitingFlag = TRUE
    /\ oldClients = FALSE
    /\ activatePc = "done"
    /\ deletions = [ n \in AllNames |-> "none" ]
    /\ activateResult = "fulfilled"
    /\ claimed = TRUE
    /\ handlers = [ h \in 1..MaxFetch |-> IdleHandler ]
    /\ oldWrite = "none"
    /\ LifeInit
    /\ serviceWorkerReady \in BOOLEAN
    /\ controlled \in BOOLEAN
    /\ UpdIdle
    /\ UiInit

NextUpdateCache ==
    \/ UpdateCacheStart
    \/ UpdUpdateSettle
    \/ UpdKeysSettle
    \/ UpdOpenSettle
    \/ UpdCacheKeysSettle
    \/ UpdMatchSettle
    \/ UpdNetSettle
    \/ UpdFetchDone
    \/ UpdPutSettle

SpecUpdateCache == InitUpdateCache /\ [][NextUpdateCache]_vars

(***************************************************************************)
(* install.js: the install button, and the controllerchange listener of    *)
(* app.js. One step is one run-to-completion task of the page.             *)
(***************************************************************************)
\* handleBeforeInstallPrompt: the event is saved.
HandleBeforeInstallPrompt(st, ev) ==
    [ st EXCEPT !.promptEvent = ev, !.canInstall = TRUE, !.installSupported = TRUE ]

\* handleAppInstalled
HandleAppInstalled(st) ==
    [ st EXCEPT !.isInstalled = TRUE, !.canInstall = FALSE, !.promptEvent = NoEvent ]

\* handleDisplayModeChange (window.navigator.standalone is not true in a
\* browser that dispatches beforeinstallprompt)
HandleDisplayModeChange(st, matches) == [ st EXCEPT !.isInstalled = matches ]

\* An accepted branch that forgets the flag.
AcceptedKeepingFlag(st) == [ st EXCEPT !.promptEvent = NoEvent ]

\* result.outcome === 'accepted': the saved event is cleared.
Accepted(st) == [ st EXCEPT !.promptEvent = NoEvent, !.canInstall = FALSE ]

\* updateInstallUI: installBtn.disabled is false in the branch
\* canInstall && promptEvent of a page that is not installed.
UpdateInstallUI(st) == ~st.isInstalled /\ st.canInstall /\ st.promptEvent # NoEvent

uiRest == << refreshing, reloads, controllerChanges, pushVars, subVars >>

\* The browser dispatches beforeinstallprompt with a new event.
BeforeInstallPrompt ==
    /\ fired < MaxPrompt
    /\ fired' = fired + 1
    /\ InstallState' = HandleBeforeInstallPrompt(InstallState, fired')
    /\ btnEnabled' = UpdateInstallUI(InstallState')
    /\ UNCHANGED << swVars, lifeVars, updVars, standalone, clicks, promptCalls, uiRest >>

\* The browser dispatches appinstalled.
AppInstalled ==
    /\ InstallState' = HandleAppInstalled(InstallState)
    /\ btnEnabled' = UpdateInstallUI(InstallState')
    /\ UNCHANGED << swVars, lifeVars, updVars, standalone, clicks, promptCalls, fired,
                    uiRest >>

\* The display mode changes: the listener of the media query runs.
DisplayModeChange ==
    /\ standalone' = ~standalone
    /\ InstallState' = HandleDisplayModeChange(InstallState, standalone')
    /\ btnEnabled' = UpdateInstallUI(InstallState')
    /\ UNCHANGED << swVars, lifeVars, updVars, clicks, promptCalls, fired, uiRest >>

\* The enabled install button is clicked: handleInstallClick returns at once
\* without a saved event, and calls prompt() on the saved event otherwise.
\* A prompt() on an event that was prompted before is rejected.
InstallClick(c) ==
    /\ btnEnabled
    /\ clicks[c].pc = "idle"
    /\ \A k \in 1..MaxClick : k < c => clicks[k].pc # "idle"
    /\ IF InstallState.promptEvent = NoEvent
       THEN /\ clicks' = [ clicks EXCEPT ![c].pc = "done" ]
            /\ UNCHANGED promptCalls
       ELSE /\ clicks' = [ clicks EXCEPT ![c] =
                             [ pc |-> "prompting", ev |-> InstallState.promptEvent,
                               again |-> promptCalls[InstallState.promptEvent] > 0 ] ]
            /\ promptCalls' = [ promptCalls EXCEPT ![InstallState.promptEvent] = @ + 1 ]
    /\ UNCHANGED << swVars, lifeVars, updVars, InstallState, standalone, btnEnabled,
                    fired, uiRest >>

\* await promptEvent.prompt() is over: rejected (the catch sets the status),
\* or with the user's choice. Accepted: the saved event is cleared.
\* Dismissed: a timer is set that will call updateInstallUI.
PromptSettle(c) ==
    /\ clicks[c].pc = "prompting"
    /\ IF clicks[c].again
       THEN /\ clicks' = [ clicks EXCEPT ![c].pc = "done" ]
            /\ UNCHANGED InstallState
       ELSE \E outcome \in { "accepted", "dismissed" } :
              IF outcome = "accepted"
              THEN /\ InstallState' = Accepted(InstallState)
                   /\ clicks' = [ clicks EXCEPT ![c].pc = "done" ]
              ELSE /\ clicks' = [ clicks EXCEPT ![c].pc = "timer" ]
                   /\ UNCHANGED InstallState
    /\ UNCHANGED << swVars, lifeVars, updVars, standalone, btnEnabled, promptCalls,
                    fired, uiRest >>

\* setTimeout(() => { updateInstallUI(); }, 3000) fires.
TimerFires(c) ==
    /\ clicks[c].pc = "timer"
    /\ clicks' = [ clicks EXCEPT ![c].pc = "done" ]
    /\ btnEnabled' = UpdateInstallUI(InstallState)
    /\ UNCHANGED << swVars, lifeVars, updVars, InstallState, standalone, promptCalls,
                    fired, uiRest >>

\* A listener that reloads on every event.
OnControllerChangeAlways(flag, n) == << TRUE, n + 1 >>

\* if (refreshing) return; refreshing = true; window.location.reload();
OnControllerChange(flag, n) == IF flag THEN << flag, n >> ELSE << TRUE, n + 1 >>

\* A controllerchange event is dispatched to the document.
ControllerChange ==
    /\ controllerChanges < MaxControllerChange
    /\ controllerChanges' = controllerChanges + 1
    /\ refreshing' = OnControllerChange(refreshing, reloads)[1]
    /\ reloads' = OnControllerChange(refreshing, reloads)[2]
    /\ UNCHANGED << swVars, lifeVars, updVars, InstallState, standalone, btnEnabled,
                    clicks, promptCalls, fired, pushVars, subVars >>

InitPage ==
    /\ SwInit
    /\ cacheNames = << >>
    /\ LifeInit
    /\ serviceWorkerReady = FALSE
    /\ controlled = FALSE
    /\ UpdIdle
    /\ \E mode \in BOOLEAN : UiInitIn(mode)

NextPage ==
    \/ BeforeInstallPrompt
    \/ AppInstalled
    \/ DisplayModeChange
    \/ \E c \in 1..MaxClick : InstallClick(c)
    \/ \E c \in 1..MaxClick : PromptSettle(c)
    \/ \E c \in 1..MaxClick : TimerFires(c)
    \/ ControllerChange

SpecPage == InitPage /\ [][NextPage]_vars

(***************************************************************************)
(* sw.js: the push and notificationclick listeners                         *)
(***************************************************************************)
\* Number of push events, and of notification clicks, in one run.
MaxPush == 2

MaxNotificationClick == 2

pushRest == << swVars, lifeVars, updVars, InstallState, standalone, btnEnabled, clicks,
               promptCalls, fired, refreshing, reloads, controllerChanges, subVars >>

\* The payloads of a push message. A payload is the text of a JSON object
\* with some of the members title, body and icon ("": the member is missing
\* or empty), the text of the JSON value null, the text of a JSON number, or
\* a text that is not JSON.
ObjectPayloads ==
    { [ form |-> "object", title |-> t, body |-> b, icon |-> i ] :
        t \in { "", "T" }, b \in { "", "B" }, i \in { "", "I" } }

NullPayload == [ form |-> "null", title |-> "", body |-> "", icon |-> "" ]

NumberPayload == [ form |-> "number", title |-> "", body |-> "", icon |-> "" ]

TextPayload == [ form |-> "text", title |-> "", body |-> "", icon |-> "" ]

PushData == { NoPayload } \cup ObjectPayloads \cup { NullPayload, NumberPayload, TextPayload }

\* event.data.text()
Text(data) ==
    CASE data.form = "null" -> "null"
      [] data.form = "number" -> "5"
      [] data.form = "text" -> "hello"
      [] OTHER -> "{...}"

\* event.data.json() throws a SyntaxError for a text that is not JSON.
JsonThrows(data) == data.form = "text"

\* Reading a member of the parsed value: a TypeError for null, undefined for
\* a number, the member for an object.
MemberThrows(data) == data.form = "null"

\* a || b
OrElse(a, b) == IF a = "" THEN b ELSE a

\* The title and options the push listener passes to showNotification: the
\* try block assigns title, body and icon from the parsed payload; whatever
\* it throws, and before any assignment, the catch makes the text the body.
OnPush(data) ==
    IF data = NoPayload
    THEN Notification(DEFAULT_TITLE, DEFAULT_BODY, DEFAULT_ICON)
    ELSE IF JsonThrows(data) \/ MemberThrows(data)
    THEN Notification(DEFAULT_TITLE, OrElse(Text(data), DEFAULT_BODY), DEFAULT_ICON)
    ELSE Notification(OrElse(data.title, DEFAULT_TITLE), OrElse(data.body, DEFAULT_BODY),
                      OrElse(data.icon, DEFAULT_ICON))

\* The listener is not in the middle of an event.
Quiet(last) == IF last = << >> THEN TRUE ELSE last[1].pc = "done"

\* The number of events a listener has handled.
Handled(last) == IF last = << >> THEN 0 ELSE last[1].n

\* A push event is dispatched: the listener runs up to
\* event.waitUntil(self.registration.showNotification(title, options)...),
\* with one call of showNotification.
PushEvent ==
    /\ Quiet(push)
    /\ Handled(push) < MaxPush
    /\ \E data \in PushData :
         push' = << [ pc |-> "showing", n |-> Handled(push) + 1, data |-> data,
                      calls |-> 1, shown |-> OnPush(data),
                      failed |-> FALSE, logged |-> FALSE, result |-> "pending" ] >>
    /\ UNCHANGED << pushRest, nclick >>

\* showNotification settles: the then logs the completion, the catch logs
\* the error; the promise given to event.waitUntil is fulfilled either way.
PushShowSettle ==
    /\ push # << >>
    /\ push[1].pc = "showing"
    /\ \E ok \in BOOLEAN :
         push' = << [ push[1] EXCEPT !.pc = "done", !.failed = ~ok, !.logged = ~ok,
                                     !.result = "fulfilled" ] >>
    /\ UNCHANGED << pushRest, nclick >>

\* What clients.matchAll({ type: 'window', includeUncontrolled: true }) may
\* resolve with: window clients, whose url includes self.location.origin
\* ("origin") or not ("about:blank").
ClientLists ==
    { << >> } \cup { << a >> : a \in { "origin", "about:blank" } }
              \cup { << a, b >> : a, b \in { "origin", "about:blank" } }

\* The first client of the list the loop focuses, 0 when there is none:
\* client.url.includes(self.location.origin) && 'focus' in client
FirstFocusable(list) ==
    IF \E i \in 1..Len(list) : list[i] = "origin"
    THEN CHOOSE i \in 1..Len(list) :
           /\ list[i] = "origin"
           /\ \A k \in 1..Len(list) : k < i => list[k] # "origin"
    ELSE 0

\* A then that opens a window after focusing.
OnClientListBoth(st, list) ==
    [ st EXCEPT !.pc = "done", !.clientList = list,
                !.focused = FirstFocusable(list),
                !.focusCalls = IF FirstFocusable(list) # 0 THEN 1 ELSE 0,
                !.opened = << "/" >> ]

\* The then of clients.matchAll: return client.focus() for the first
\* matching client, and return clients.openWindow('/') when the loop ends.
OnClientList(st, list) ==
    IF FirstFocusable(list) # 0
    THEN [ st EXCEPT !.pc = "done", !.clientList = list,
                     !.focused = FirstFocusable(list), !.focusCalls = 1 ]
    ELSE [ st EXCEPT !.pc = "done", !.clientList = list, !.opened = << "/" >> ]

\* A notification, or one of its actions ('open', 'close'), is clicked:
\* event.notification.close(), then return for 'close' and clients.matchAll
\* otherwise.
NotificationClick ==
    /\ Quiet(nclick)
    /\ Handled(nclick) < MaxNotificationClick
    /\ \E action \in { "", "open", "close" } :
         nclick' = << [ pc |-> IF action = "close" THEN "done" ELSE "matchAll",
                        n |-> Handled(nclick) + 1, action |-> action,
                        clientList |-> << >>, closed |-> 1, focused |-> 0,
                        focusCalls |-> 0, opened |-> << >> ] >>
    /\ UNCHANGED << pushRest, push >>

\* clients.matchAll resolves (it has no failure).
MatchAllSettle ==
    /\ nclick # << >>
    /\ nclick[1].pc = "matchAll"
    /\ \E list \in ClientLists : nclick' = << OnClientList(nclick[1], list) >>
    /\ UNCHANGED << pushRest, push >>

InitPush == Init /\ cacheNames = << >>

NextPush ==
    \/ PushEvent
    \/ PushShowSettle
    \/ NotificationClick
    \/ MatchAllSettle

SpecPush == InitPush /\ [][NextPush]_vars

(***************************************************************************)
(* install.js: the push subscription of the page                           *)
(***************************************************************************)
\* Number of calls of handleNotificationRequest, and of
\* unsubscribeFromPush, in one run.
MaxNotifyRequest == 2

MaxUnsubscribe == 2

subRest == << swVars, lifeVars, updVars, InstallState, standalone, btnEnabled, clicks,
              promptCalls, fired, refreshing, reloads, controllerChanges, pushVars >>

\* updatePushUI: notifyBtn.disabled is false with permission granted and no
\* subscription, and with permission not asked yet. Without support
\* checkPushSupport returns before updatePushUI: the button is as the
\* document has it, enabled.
NotifyButtonEnabled(st) ==
    \/ ~st.isSupported
    \/ st.permission = "granted" /\ st.subscription = NoSubscription
    \/ st.permission = "default"

\* A handler that subscribes unless the permission is denied.
SubscribesUnlessDenied(permission) == permission # "denied"

\* if (permission === 'granted') await subscribeToPush()
Subscribes(permission) == permission = "granted"

\* The notify button is clicked: handleNotificationRequest returns at once
\* without support and calls Notification.requestPermission() otherwise.
HandleNotificationRequest ==
    /\ Quiet(notifyReq)
    /\ Handled(notifyReq) < MaxNotifyRequest
    /\ NotifyButtonEnabled(PushState)
    /\ notifyReq' = << [ pc |-> IF PushState.isSupported THEN "permission" ELSE "done",
                         n |-> Handled(notifyReq) + 1, permission |-> "none",
                         subscribeCalls |-> 0, subscribed |-> "none" ] >>
    /\ UNCHANGED << subRest, PushState, localStorage, unsub >>

\* Notification.requestPermission() settles: rejected (the catch sets the
\* status), or with the permission, which is saved; for 'granted'
\* subscribeToPush runs up to registration.pushManager.subscribe(...).
PermissionSettle ==
    /\ notifyReq # << >>
    /\ notifyReq[1].pc = "permission"
    /\ \/ /\ notifyReq' = << [ notifyReq[1] EXCEPT !.pc = "done", !.permission = "throws" ] >>
          /\ UNCHANGED PushState
       \/ \E permission \in { "granted", "denied", "default" } :
            /\ PushState' = [ PushState EXCEPT !.permission = permission ]
            /\ notifyReq' =
                 << IF Subscribes(permission)
                    THEN [ notifyReq[1] EXCEPT !.pc = "subscribe", !.permission = permission,
                                               !.subscribeCalls = @ + 1 ]
                    ELSE [ notifyReq[1] EXCEPT !.pc = "done", !.permission = permission ] >>
    /\ UNCHANGED << subRest, localStorage, unsub >>

\* pushManager.subscribe settles: the subscription is saved and
\* sendSubscriptionToServer stores it (a failure of localStorage.setItem is
\* caught); a failure of subscribe is caught and sets the status.
SubscribeSettle ==
    /\ notifyReq # << >>
    /\ notifyReq[1].pc = "subscribe"
    /\ \/ /\ notifyReq' = << [ notifyReq[1] EXCEPT !.pc = "done", !.subscribed = "failed" ] >>
          /\ UNCHANGED << PushState, localStorage >>
       \/ /\ notifyReq' = << [ notifyReq[1] EXCEPT !.pc = "done", !.subscribed = "ok" ] >>
          /\ PushState' = [ PushState EXCEPT !.subscription = notifyReq[1].n ]
          /\ \E saved \in BOOLEAN :
               localStorage' = IF saved THEN localStorage \cup { PUSH_SUBSCRIPTION }
                               ELSE localStorage
    /\ UNCHANGED << subRest, unsub >>

\* An unsubscribe that clears whatever the platform answered.
OnUnsubscribeAlways(st, successful) == [ st EXCEPT !.subscription = NoSubscription ]

\* if (successful) PushState.subscription = null
OnUnsubscribe(st, successful) ==
    IF successful THEN [ st EXCEPT !.subscription = NoSubscription ] ELSE st

\* unsubscribeFromPush is called: it returns false without a subscription
\* and calls PushState.subscription.unsubscribe() otherwise.
UnsubscribeFromPush ==
    /\ Quiet(unsub)
    /\ Handled(unsub) < MaxUnsubscribe
    /\ unsub' = << IF PushState.subscription = NoSubscription
                   THEN [ pc |-> "done", n |-> Handled(unsub) + 1, out |-> "none",
                          ret |-> "false" ]
                   ELSE [ pc |-> "unsubscribe", n |-> Handled(unsub) + 1, out |-> "none",
                          ret |-> "none" ] >>
    /\ UNCHANGED << subRest, PushState, localStorage, notifyReq >>

\* subscription.unsubscribe() settles with true, with false, or rejected.
\* With true the subscription is cleared, the stored item is removed and
\* true is returned; a failure of the removal is caught and false is
\* returned. With false, and in the catch, false is returned.
UnsubscribeSettle ==
    /\ unsub # << >>
    /\ unsub[1].pc = "unsubscribe"
    /\ \E out \in { "true", "false", "throws" } :
         /\ PushState' = OnUnsubscribe(PushState, out = "true")
         /\ IF out = "true"
            THEN \E removed \in BOOLEAN :
                   /\ localStorage' = IF removed THEN localStorage \ { PUSH_SUBSCRIPTION }
                                      ELSE localStorage
                   /\ unsub' = << [ unsub[1] EXCEPT !.pc = "done", !.out = out,
                                      !.ret = IF removed THEN "true" ELSE "false" ] >>
            ELSE /\ unsub' = << [ unsub[1] EXCEPT !.pc = "done", !.out = out,
                                    !.ret = "false" ] >>
                 /\ UNCHANGED localStorage
    /\ UNCHANGED << subRest, notifyReq >>

\* The page is loaded: checkPushSupport has read Notification.permission and
\* checkExistingSubscription the subscription of an earlier visit, whose
\* item may be in localStorage.
InitSubscription ==
    /\ SwInit
    /\ cacheNames = << >>
    /\ LifeInit
    /\ serviceWorkerReady = FALSE
    /\ controlled = FALSE
    /\ UpdIdle
    /\ InstallUiInit(FALSE)
    /\ PushIdle
    /\ \E supported \in BOOLEAN, permission \in { "default", "granted", "denied" },
          earlier \in BOOLEAN :
         PushState = [ isSupported |-> supported,
                       permission |-> IF supported THEN permission ELSE "default",
                       subscription |-> IF supported /\ permission = "granted" /\ earlier
                                        THEN MaxNotifyRequest + 1 ELSE NoSubscription ]
    /\ localStorage \in { { }, { PUSH_SUBSCRIPTION } }
    /\ notifyReq = << >>
    /\ unsub = << >>

NextSubscription ==
    \/ HandleNotificationRequest
    \/ PermissionSettle
    \/ SubscribeSettle
    \/ UnsubscribeFromPush
    \/ UnsubscribeSettle

SpecSubscription == InitSubscription /\ [][NextSubscription]_vars

(***************************************************************************)
(* Properties                                                              *)
(***************************************************************************)
Handlers == 1..MaxFetch

Settled(h) == handlers[h].pc \in { "resolved", "rejected" }

FinishedInstall == swState \in { "installed", "activating", "activated" }

ManifestCached ==
    /\ CACHE_NAME \in SeqToSet(cacheNames)
    /\ \A u \in ManifestSet : HasEntry(cacheData, CACHE_NAME, u)

\* The step in which the caches.match(event.request) of handler h settles.
MatchSettles(h) == handlers[h].pc = "match" /\ handlers'[h].pc # "match"

\* The step in which the caches.match(OFFLINE_URL) of handler h settles.
OfflineSettles(h) == handlers[h].pc = "offline" /\ handlers'[h].pc # "offline"

InCurrent(url) ==
    CACHE_NAME \in SeqToSet(cacheNames) /\ HasEntry(cacheData, CACHE_NAME, url)

InSome(url) == \E n \in SeqToSet(cacheNames) : HasEntry(cacheData, n, url)

\* C1: whenever pre-population fails (caches.open or cache.addAll), the
\* promise handed to event.waitUntil by the install listener fails and the
\* instance does not become installed.
C1_InstallAllOrNothing ==
    installFailed => installResult # "fulfilled" /\ ~FinishedInstall

\* C2: an instance finishes install only with the current namespace holding
\* an entry for every path of CACHE_RESOURCES at that moment.
C2_InstalledHasManifest ==
    [][swState = "installing" /\ swState' = "installed" => ManifestCached']_vars

\* C3: after a successful install, a navigational GET that misses the cache
\* and whose network call fails is always answered with the offline page.
C3_NavigationGetsOfflinePage ==
    \A h \in Handlers :
        ( /\ installResult = "fulfilled"
          /\ handlers[h].req.destination = "document"
          /\ handlers[h].lookup = "miss"
          /\ handlers[h].net = "failed"
          /\ Settled(h) )
        => /\ handlers[h].pc = "resolved"
           /\ handlers[h].resp \in { At(OFFLINE_URL, NetOk), At(OFFLINE_URL, StaleOk) }

\* C4: the promise given to event.respondWith never rejects and never
\* resolves to an absent value: every settled GET fetch is answered with a
\* response object.
C4_AlwaysWellFormedResponse ==
    \A h \in Handlers :
        Settled(h) => handlers[h].pc = "resolved" /\ handlers[h].resp # Undefined

\* C5: when the offline page is absent from the cache at the time the catch
\* branch looks it up for a navigational request, the handler answers with a
\* failure response object, neither failing nor answering with no response.
C5_MissingOfflinePageDegrades ==
    [][\A h \in Handlers :
          OfflineSettles(h) /\ ~InSome(OFFLINE_URL)
          => handlers'[h].pc = "resolved" /\ handlers'[h].resp # Undefined]_vars

\* C6, as stated: once the activate operation has completed, keys() holds
\* only CACHE_NAME.
C6_OnlyCurrentAfterActivate ==
    activatePc \in { "settled", "done" } => SeqToSet(cacheNames) \subseteq { CACHE_NAME }

\* C6, amended: once the activate operation has completed successfully (its
\* promise fulfilled, hence every deletion succeeded), keys() holds no name
\* other than CACHE_NAME, except the namespace of another instance whose own
\* cache write has opened it.
C6_OnlyCurrentAfterSuccessfulActivate ==
    activateResult = "fulfilled" =>
        \A n \in SeqToSet(cacheNames) :
            \/ n = CACHE_NAME
            \/ n = OLD_CACHE_NAME /\ oldWrite \notin { "none", "open" }

C6_Witness ==
    /\ activateResult = "fulfilled"
    /\ swState = "activated"
    /\ deletions[OLD_CACHE_NAME] = "fulfilled"
    /\ deletions[LEGACY_CACHE_NAME] = "fulfilled"
    /\ cacheNames = << CACHE_NAME >>

\* C7: the failure of one namespace deletion does not make the activate
\* operation fail: the promise given to event.waitUntil is still fulfilled.
C7_DeletionFailureNotFatal ==
    (\E n \in AllNames : deletions[n] = "rejected") => activateResult # "rejected"

\* C8: the activate operation completes only after every deletion it started
\* has completed and after clients.claim() was invoked.
C8_CompletesAfterDeletionsAndClaim ==
    activatePc \in { "settled", "done" } =>
        /\ \A n \in AllNames : deletions[n] # "pending"
        /\ claimed

\* C9, as stated: when the lookup of a request held by the current namespace
\* succeeds, the entry stored there is returned, with no network call and no
\* cache write.
C9_HitReturnsCurrentEntry ==
    [][\A h \in Handlers :
          ( /\ MatchSettles(h)
            /\ handlers'[h].lookup # "failed"
            /\ InCurrent(handlers[h].req.url) )
          => /\ handlers'[h].pc = "resolved"
             /\ handlers'[h].resp = cacheData[CACHE_NAME][handlers[h].req.url]
             /\ handlers'[h].net = "none"
             /\ handlers'[h].write = "none"]_vars

\* C9, amended: for a request held by the current namespace the network is
\* never invoked and nothing is written; when the lookup succeeds the answer
\* is a stored entry for that identity, which is the current namespace's
\* whenever no namespace created before it holds the identity too.
C9_HitShortCircuit ==
    /\ [][\A h \in Handlers :
            ( MatchSettles(h) /\ InCurrent(handlers[h].req.url) )
            => /\ handlers'[h].net = "none"
               /\ handlers'[h].write = "none"
               /\ handlers'[h].lookup \in { "hit", "failed" }
               /\ handlers'[h].lookup = "hit" =>
                    /\ handlers'[h].pc = "resolved"
                    /\ \E n \in SeqToSet(cacheNames) :
                          /\ HasEntry(cacheData, n, handlers[h].req.url)
                          /\ handlers'[h].resp = cacheData[n][handlers[h].req.url]
                    /\ ( \A n \in SeqToSet(cacheNames) :
                            n # CACHE_NAME => ~HasEntry(cacheData, n, handlers[h].req.url) )
                       => handlers'[h].resp = cacheData[CACHE_NAME][handlers[h].req.url]]_vars
    /\ [](\A h \in Handlers :
            handlers[h].lookup = "hit" =>
                handlers[h].net = "none" /\ handlers[h].write = "none")

C9_Witness ==
    \E h \in Handlers :
        /\ handlers[h].lookup = "hit"
        /\ handlers[h].pc = "resolved"
        /\ InCurrent(handlers[h].req.url)
        /\ handlers[h].resp = cacheData[CACHE_NAME][handlers[h].req.url]
        /\ handlers[h].net = "none"

\* C10, as stated: a request with no entry in the current namespace is
\* treated as a miss and goes to the network, whatever other namespaces hold.
C10_LookupInCurrentOnly ==
    [][\A h \in Handlers :
          ( /\ MatchSettles(h)
            /\ handlers'[h].lookup # "failed"
            /\ ~InCurrent(handlers[h].req.url) )
          => /\ handlers'[h].lookup = "miss"
             /\ handlers'[h].net = "pending"]_vars

\* C10, amended: the lookup covers every namespace of the origin: a request
\* is treated as a miss and goes to the network exactly when no namespace
\* holds an entry for it; an entry held only by a stale namespace is served
\* as a hit with no network call.
C10_LookupInEveryNamespace ==
    [][\A h \in Handlers :
          ( MatchSettles(h) /\ handlers'[h].lookup # "failed" )
          => IF InSome(handlers[h].req.url)
             THEN /\ handlers'[h].lookup = "hit"
                  /\ handlers'[h].pc = "resolved"
                  /\ handlers'[h].net = "none"
                  /\ \E n \in SeqToSet(cacheNames) :
                        /\ HasEntry(cacheData, n, handlers[h].req.url)
                        /\ handlers'[h].resp = cacheData[n][handlers[h].req.url]
             ELSE /\ handlers'[h].lookup = "miss"
                  /\ handlers'[h].pc = "fetch"
                  /\ handlers'[h].net = "pending"]_vars

C10_Witness ==
    \E h \in Handlers :
        /\ handlers[h].lookup = "hit"
        /\ handlers[h].pc = "resolved"
        /\ handlers[h].net = "none"
        /\ ~InCurrent(handlers[h].req.url)
        /\ \E n \in SeqToSet(cacheNames) :
              /\ n # CACHE_NAME
              /\ handlers[h].resp = cacheData[n][handlers[h].req.url]

\* The entry the current namespace holds for the request of handler h.
CurrentEntry(h) == cacheData[CACHE_NAME][handlers[h].req.url]

\* Handler h missed the cache and got a cacheable response from the network.
MissWithCacheable(h) ==
    /\ handlers[h].lookup = "miss"
    /\ handlers[h].net = "done"
    /\ handlers[h].resp.status = 200
    /\ handlers[h].resp.type = "basic"

\* The responses the network may have served for the request of handler h.
ServedFor(h) == { At(handlers[h].req.url, r) : r \in NetResponses }

\* C11, as stated: a cacheable network response obtained on a miss is
\* returned to the caller and, once its write is over, stored: the current
\* namespace holds an entry of the same status for the identity.
C11_MissIsAlwaysStored ==
    \A h \in Handlers :
        MissWithCacheable(h) /\ handlers[h].write \in { "done", WriteCatch }
        => /\ handlers[h].pc = "resolved"
           /\ InCurrent(handlers[h].req.url)
           /\ CurrentEntry(h).status = handlers[h].resp.status

\* C11, amended: a cacheable network response obtained on a miss is returned
\* to the caller and its write is started; once the write has succeeded the
\* current namespace holds an entry of the same status for the identity (a
\* write that fails stores nothing).
C11_MissIsStoredWhenWriteSucceeds ==
    \A h \in Handlers :
        MissWithCacheable(h)
        => /\ handlers[h].pc = "resolved"
           /\ handlers[h].resp \in ServedFor(h)
           /\ handlers[h].write \in { "open", "put", "done", WriteCatch }
           /\ handlers[h].write = "done" =>
                /\ InCurrent(handlers[h].req.url)
                /\ CurrentEntry(h).status = handlers[h].resp.status
                /\ CurrentEntry(h).url = handlers[h].req.url

C11_Witness ==
    \E h \in Handlers :
        /\ MissWithCacheable(h)
        /\ handlers[h].write = "done"
        /\ CurrentEntry(h) = handlers[h].resp

ManifestOnly ==
    /\ ManifestCached
    /\ \A u \in Urls \ ManifestSet : ~HasEntry(cacheData, CACHE_NAME, u)

\* Handler h is a navigational request that missed the cache and whose
\* network call failed.
NavigationFailed(h) ==
    /\ handlers[h].req.destination = "document"
    /\ handlers[h].lookup = "miss"
    /\ handlers[h].net = "failed"

\* C13: with exactly the manifest in the current namespace, a
\* navigational request that missed the cache and whose network call failed
\* resolves to the /offline.html entry stored there.
C13_OfflineFallback ==
    [][\A h \in Handlers :
          ( OfflineSettles(h) /\ NavigationFailed(h) /\ ManifestOnly )
          => /\ handlers'[h].pc = "resolved"
             /\ handlers'[h].resp = cacheData[CACHE_NAME][OFFLINE_URL]]_vars

\* C14: a GET request that is not a navigation, missed the cache and whose
\* network call failed is answered with the synthetic response of status 408;
\* the promise is not rejected.
C14_SyntheticFailure ==
    \A h \in Handlers :
        ( /\ handlers[h].req.method = "GET"
          /\ handlers[h].req.destination # "document"
          /\ handlers[h].lookup = "miss"
          /\ handlers[h].net = "failed" )
        => /\ handlers[h].pc = "resolved"
           /\ handlers[h].resp = Synthetic
           /\ handlers[h].resp.status = 408

C14_Witness ==
    \E h \in Handlers :
        /\ handlers[h].req = Request(DATA_URL, "GET", "")
        /\ handlers[h].lookup = "miss"
        /\ handlers[h].net = "failed"
        /\ handlers[h].pc = "resolved"
        /\ handlers[h].resp.status = 408

\* C15: for a request whose method is not GET the listener calls neither
\* respondWith, nor the cache, nor the network, and writes nothing; the
\* fetch event leaves the cache storage as it was.
C15_NonGetPassThrough ==
    /\ [](\A h \in Handlers :
            handlers[h].pc # "idle" /\ handlers[h].req.method # "GET"
            => /\ handlers[h].pc = "passthrough"
               /\ handlers[h].lookup = "none"
               /\ handlers[h].net = "none"
               /\ handlers[h].write = "none"
               /\ handlers[h].resp = Undefined)
    /\ [][\A h \in Handlers :
            handlers[h].pc = "idle" /\ handlers'[h].req.method = "POST"
            => cacheNames' = cacheNames /\ cacheData' = cacheData]_vars

C15_Witness ==
    \E h1, h2 \in Handlers :
        /\ handlers[h1].pc = "passthrough"
        /\ handlers[h1].req.method = "POST"
        /\ handlers[h2].write = "done"
        /\ handlers[h2].req.url = handlers[h1].req.url

\* The opportunistic write of handler h is under way.
WritePending(h) == handlers[h].write \in { "open", "put" }

\* C16: the response of a miss is returned without waiting for the
\* opportunistic write: whatever the write's state (started, finished or
\* failed) the respondWith promise is already resolved with the network
\* response, and while the write of one request is pending every step of
\* another request that is due can be taken.
C16_ResponseDoesNotWaitForWrite ==
    /\ \A h \in Handlers :
          handlers[h].write # "none"
          => /\ handlers[h].pc = "resolved"
             /\ handlers[h].resp \in ServedFor(h)
    /\ \A h1, h2 \in Handlers :
          ( h1 # h2 /\ WritePending(h1) )
          => /\ handlers[h2].pc = "match" => ENABLED FetchMatchSettle(h2)
             /\ handlers[h2].pc = "fetch" => ENABLED FetchNetSettle(h2)
             /\ handlers[h2].pc = "offline" => ENABLED FetchOfflineSettle(h2)
             /\ ( /\ handlers[h2].pc = "idle"
                  /\ \A k \in Handlers : k < h2 => handlers[k].pc # "idle" )
                => ENABLED FetchEvent(h2)

C16_Witness ==
    \E h1, h2 \in Handlers :
        /\ h1 < h2
        /\ WritePending(h1)
        /\ handlers[h1].pc = "resolved"
        /\ handlers[h2].lookup = "miss"
        /\ handlers[h2].pc = "resolved"
        /\ handlers[h2].write = WriteCatch

\* C17: a failure of caches.open or cache.put during the opportunistic write
\* leaves the network response with the caller and is handled (logged); it
\* never ends as an unhandled rejection.
C17_WriteFailureIsHandled ==
    \A h \in Handlers :
        /\ handlers[h].write # "none" => handlers[h].pc = "resolved"
        /\ handlers[h].write # "unhandled"

\* C18: concurrent misses of distinct identities do not disturb each other:
\* once the write of a request is done, the current namespace holds for its
\* identity an entry of that identity, which is the response fetched for a
\* request of that identity (its own, when it is the only one).
C18_WriteThroughIsolation ==
    \A h \in Handlers :
        handlers[h].write = "done"
        => /\ InCurrent(handlers[h].req.url)
           /\ CurrentEntry(h).url = handlers[h].req.url
           /\ \E k \in Handlers :
                 /\ handlers[k].req.url = handlers[h].req.url
                 /\ handlers[k].write = "done"
                 /\ CurrentEntry(h) = handlers[k].resp
           /\ ( \A k \in Handlers \ { h } : handlers[k].req.url # handlers[h].req.url )
              => CurrentEntry(h) = handlers[h].resp

C18_Witness ==
    \E h1, h2 \in Handlers :
        /\ handlers[h1].req.url # handlers[h2].req.url
        /\ handlers[h1].lookup = "miss" /\ handlers[h2].lookup = "miss"
        /\ handlers[h1].write = "done" /\ handlers[h2].write = "done"
        /\ CurrentEntry(h1) = handlers[h1].resp
        /\ CurrentEntry(h2) = handlers[h2].resp

\* The step in which the cache.put of handler h succeeds.
PutCompletes(h) == handlers[h].write = "put" /\ handlers'[h].write = "done"

\* C19: two misses of the same identity both get a response and both write;
\* each completed write replaces the entry of the identity by its own
\* response and nothing else changes that entry, so after both writes there
\* is one entry, the response written last.
C19_LastWriteWins ==
    /\ [][\A h \in Handlers :
            PutCompletes(h)
            => /\ cacheData'[CACHE_NAME][handlers[h].req.url] = handlers[h].resp
               /\ \A u \in Urls \ { handlers[h].req.url } :
                     cacheData'[CACHE_NAME][u] = cacheData[CACHE_NAME][u]]_vars
    /\ [][( \A h \in Handlers : ~PutCompletes(h) )
            => cacheData'[CACHE_NAME][DATA_URL] = cacheData[CACHE_NAME][DATA_URL]]_vars
    /\ [](\A h1, h2 \in Handlers :
            ( /\ h1 # h2
              /\ handlers[h1].req.url = handlers[h2].req.url
              /\ handlers[h1].write = "done"
              /\ handlers[h2].write = "done" )
            => /\ handlers[h1].pc = "resolved" /\ handlers[h1].resp \in ServedFor(h1)
               /\ handlers[h2].pc = "resolved" /\ handlers[h2].resp \in ServedFor(h2)
               /\ \E k \in Handlers :
                     /\ handlers[k].req.url = handlers[h1].req.url
                     /\ handlers[k].write = "done"
                     /\ CurrentEntry(h1) = handlers[k].resp)

C19_Witness ==
    \E h1, h2 \in Handlers :
        /\ h1 # h2
        /\ handlers[h1].req.url = handlers[h2].req.url
        /\ handlers[h1].lookup = "miss" /\ handlers[h2].lookup = "miss"
        /\ handlers[h1].write = "done" /\ handlers[h2].write = "done"
        /\ handlers[h1].resp # handlers[h2].resp
        /\ CurrentEntry(h1) = handlers[h1].resp

\* C20: every install that completes has requested skipWaiting, with the
\* whole manifest stored before, so an installed instance may activate at
\* once, open pages of the previous deployment or not.
C20_EagerActivation ==
    /\ skipWaitingFlag => ManifestCached
    /\ FinishedInstall => skipWaitingFlag
    /\ swState = "installed" => MayActivate

(***************************************************************************)
(* Properties of the life of a registration                                *)
(***************************************************************************)
\* The paths that have an entry in the namespace `name`.
StoredUrls(name) == { u \in Urls : HasEntry(cacheData, name, u) }

\* The content of the namespace after one successful install into the
\* empty storage.
AfterOneInstall ==
    CacheAddAll(<< CACHE_NAME >>, [ n \in AllNames |-> EmptyCache ], CACHE_NAME,
                ManifestSet, NetOk)[CACHE_NAME]

\* The pre-population of the install under way, or just over, succeeded.
PrePopulated == installPc \in { "settled", "done" } /\ ~installFailed

\* C21: after a successful install that follows a successful install into
\* the same CACHE_NAME (no fetch in between), the namespace has exactly one
\* entry per manifest path and nothing else: it is what one install leaves.
C21_IdempotentInstall ==
    ( /\ installLog # << >>
      /\ installLog[Len(installLog)] = "ok"
      /\ PrePopulated )
    => /\ CACHE_NAME \in SeqToSet(cacheNames)
       /\ StoredUrls(CACHE_NAME) = ManifestSet
       /\ cacheData[CACHE_NAME] = AfterOneInstall

C21_Witness ==
    /\ Len(installLog) = 1
    /\ installLog[1] = "ok"
    /\ PrePopulated
    /\ swState = "activated"
    /\ StoredUrls(CACHE_NAME) = ManifestSet

\* C24: an instance goes from installing to installed to activating to
\* activated and in no other order; its activate listener runs only once the
\* install chain, cache writes included, has settled and the install is
\* over, and while the chain is running the instance stays installing even
\* though skipWaiting was requested.
C24_InstallBeforeActivate ==
    /\ []( swState \in { "activating", "activated" }
           => installPc = "done" /\ installResult # "pending" )
    /\ []( activatePc # "idle" => swState \in { "activating", "activated" } )
    /\ []( installPc \in { "open", "addAll", "settled" }
           => swState = "installing" /\ activatePc = "idle" )
    /\ [][ swState' # swState
           => \/ << swState, swState' >> \in
                    { << "installing", "installed" >>, << "installed", "activating" >>,
                      << "activating", "activated" >> }
              \/ swState' = "installing" /\ installLog' # installLog ]_vars

C24_Witness ==
    /\ skipWaitingFlag
    /\ swState = "installing"
    /\ installPc = "settled"
    /\ oldClients
    /\ activatePc = "idle"

\* The step posts the message `data` to the instance.
Posts(data) == inbox' = Append(inbox, data)

\* The step delivers the message `data` to the message listener.
Delivers(data) ==
    /\ inbox # << >>
    /\ Head(inbox) = data
    /\ inbox' = Tail(inbox)
    /\ installLog' = installLog

\* C27: SKIP_WAITING is posted only after the user said yes and only to a
\* waiting worker; skipWaiting is called by the message listener only for a
\* SKIP_WAITING message (otherwise only by the install listener), and the
\* delivery of any other message leaves it uncalled.
C27_UpdateHandshake ==
    /\ [][ Posts(SKIP_WAITING)
           => updatePc = "getRegistration" /\ swState = "installed" ]_vars
    /\ [][ updatePc' = "getRegistration" /\ updatePc # "getRegistration"
           => updatePc = "idle" /\ swState = "installed" ]_vars
    /\ [][ skipWaitingFlag' /\ ~skipWaitingFlag
           => \/ Delivers(SKIP_WAITING)
              \/ installPc = "addAll" /\ installPc' = "settled" /\ ~installFailed' ]_vars
    /\ [][ \A data \in OtherMessages :
              Delivers(data) => skipWaitingFlag' = skipWaitingFlag ]_vars

C27_Witness ==
    /\ installFailed
    /\ skipWaitingFlag
    /\ updatePc = "posted"
    /\ swState = "activating"
    /\ inbox = << "PING" >>

(***************************************************************************)
(* Properties of the storage as a whole                                    *)
(***************************************************************************)
\* The step in which the caches.delete(n) of the activate listener succeeds.
DeleteCompletes(n) == deletions[n] = "pending" /\ deletions'[n] = "fulfilled"

\* The step in which the caches.open of the install listener succeeds.
InstallOpens == installPc = "open" /\ installPc' = "addAll"

\* The step in which the caches.open of an opportunistic write succeeds.
WriteOpens(h) == handlers[h].write = "open" /\ handlers'[h].write = "put"

\* C22, as stated: the set of namespaces changes only by a deletion of the
\* activate listener; no install and no fetch handling adds or removes one.
C22_OnlyActivateChangesNamespaces ==
    [][ cacheNames' # cacheNames
        => \E n \in AllNames : DeleteCompletes(n) ]_vars

\* C22, amended: the set of namespaces changes in three places. A deletion
\* of the activate listener removes a namespace other than CACHE_NAME; the
\* caches.open of the install listener, and the caches.open of a fetch
\* listener's opportunistic write, adds the listener's own CACHE_NAME when
\* it is absent. Install and fetch handling remove no namespace.
C22_NamespaceChanges ==
    [][ cacheNames' # cacheNames
        => \/ \E n \in AllNames \ { CACHE_NAME } :
                 /\ DeleteCompletes(n)
                 /\ cacheNames' = CachesDeleteNames(cacheNames, n)
           \/ /\ CACHE_NAME \notin SeqToSet(cacheNames)
              /\ cacheNames' = Append(cacheNames, CACHE_NAME)
              /\ InstallOpens \/ \E h \in Handlers : WriteOpens(h)
           \/ /\ OLD_CACHE_NAME \notin SeqToSet(cacheNames)
              /\ cacheNames' = Append(cacheNames, OLD_CACHE_NAME)
              /\ oldWrite = "open" /\ oldWrite' = "put" ]_vars

C22_Witness ==
    /\ installPc = "addAll"
    /\ activatePc = "idle"
    /\ cacheNames = << LEGACY_CACHE_NAME, OLD_CACHE_NAME, CACHE_NAME >>

\* C23: an entry appears or is replaced only by the pre-population of the
\* install listener (manifest paths) or by the opportunistic write that
\* follows a successful network fetch of that request; an entry disappears
\* only with its namespace, deleted by the activate listener.
C23_EntriesFrame ==
    [][ \A n \in AllNames, u \in Urls :
          cacheData'[n][u] # cacheData[n][u]
          => IF cacheData'[n][u] = Undefined
             THEN /\ n # CACHE_NAME
                  /\ DeleteCompletes(n)
                  /\ n \notin SeqToSet(cacheNames')
             ELSE \/ /\ n = CACHE_NAME
                     /\ u \in ManifestSet
                     /\ installPc = "addAll" /\ installPc' = "settled" /\ ~installFailed'
                  \/ /\ n = CACHE_NAME
                     /\ \E h \in Handlers :
                           /\ PutCompletes(h)
                           /\ handlers[h].req.url = u
                           /\ handlers[h].net = "done"
                           /\ IsCacheable(handlers[h].resp)
                           /\ cacheData'[n][u] = handlers[h].resp
                  \/ /\ n = OLD_CACHE_NAME
                     /\ u = DATA_URL
                     /\ oldWrite = "put" /\ oldWrite' = "settled" ]_vars

C23_Witness ==
    /\ ManifestCached
    /\ \E h \in Handlers :
          /\ handlers[h].write = "done"
          /\ handlers[h].req.url = DATA_URL
          /\ CurrentEntry(h) = handlers[h].resp
    /\ deletions[LEGACY_CACHE_NAME] = "fulfilled"
    /\ deletions[OLD_CACHE_NAME] = "fulfilled"
    /\ cacheNames = << CACHE_NAME >>

\* C25: the deletion of the old namespace and the old deployment's write
\* into it are not serialized: each can settle whatever the state of the
\* other, and when the write's caches.open comes after the deletion the
\* namespace is back in the storage, holding nothing but what that write put.
C25_DeletionRacesOldWrite ==
    /\ oldWrite = "open" => ENABLED OldWriteOpen
    /\ oldWrite = "put" => ENABLED OldWritePut
    /\ deletions[OLD_CACHE_NAME] = "pending" => ENABLED DeleteSettle(OLD_CACHE_NAME)
    /\ ( deletions[OLD_CACHE_NAME] = "fulfilled"
         /\ OLD_CACHE_NAME \in SeqToSet(cacheNames) )
       => /\ oldWrite \in { "put", "settled" }
          /\ StoredUrls(OLD_CACHE_NAME) \subseteq { DATA_URL }

C25_Witness ==
    /\ deletions[OLD_CACHE_NAME] = "fulfilled"
    /\ OLD_CACHE_NAME \in SeqToSet(cacheNames)
    /\ oldWrite = "put"
    /\ LEGACY_CACHE_NAME \notin SeqToSet(cacheNames)

(***************************************************************************)
(* Properties of updateCache                                               *)
(***************************************************************************)
\* Every entry of the storage holds what the network serves now.
AllCurrent ==
    \A n \in SeqToSet(cacheNames), u \in Urls :
        HasEntry(cacheData, n, u) => cacheData[n][u] = At(u, NetNewer)

\* C26: when updateCache has finished for a registered service worker that
\* controls the page, with nothing failed and only ok responses, every entry
\* holds the version the network serves now.
C26_UpdateCacheRefreshes ==
    ( updPc = "done" /\ serviceWorkerReady /\ controlled /\ updClean ) => AllCurrent

\* C35: with no namespace deleted meanwhile, no step of updateCache changes
\* the set of namespaces or the key set of a namespace; an entry changes
\* only by the cache.put of updateCache, which replaces the entry of the
\* request at hand, a key cache.keys() listed, by the response fetched for
\* it, whose status is ok; and with AppState.serviceWorkerReady false
\* updateCache returns with no cache and no network operation.
C35_UpdateCacheFrame ==
    [][ /\ cacheNames' = cacheNames
        /\ \A n \in AllNames, u \in Urls :
             /\ HasEntry(cacheData', n, u) <=> HasEntry(cacheData, n, u)
             /\ cacheData'[n][u] # cacheData[n][u]
                  => /\ updPc = "put"
                     /\ n = Head(updNames)
                     /\ u = Head(updReqs)
                     /\ cacheData'[n][u] = updFetch.resp
                     /\ cacheData'[n][u].status = 200
        /\ ~serviceWorkerReady
             => /\ updPc' \in { "idle", "noWorker" }
                /\ updFetch' = IdleHandler
                /\ UNCHANGED cacheVars ]_vars

C35_Witness ==
    /\ serviceWorkerReady
    /\ ~controlled
    /\ updPc = "done"
    /\ \E u \in Urls : cacheData[CACHE_NAME][u] = At(u, NetNewer)
    /\ \E u \in Urls : cacheData[CACHE_NAME][u] = At(u, NetOk)

(***************************************************************************)
(* Properties of the page                                                  *)
(***************************************************************************)
\* C28: a document calls window.location.reload() at most once for
\* controllerchange: the first event sets the flag and reloads, every later
\* event finds the flag set and does nothing.
C28_ReloadAtMostOnce ==
    /\ reloads <= 1
    /\ refreshing <=> reloads = 1
    /\ controllerChanges > 0 => reloads = 1

C28_Witness ==
    /\ controllerChanges > 1
    /\ refreshing
    /\ reloads = 1

\* C29: prompt() is called at most once on a saved beforeinstallprompt
\* event, whatever the clicks and the user's answers.
C29_PromptAtMostOnce == \A e \in 1..MaxPrompt : promptCalls[e] <= 1

\* C30: InstallState.canInstall is true exactly when
\* InstallState.promptEvent is not null, after every task of the page.
C30_CanInstallIffPromptEvent ==
    InstallState.canInstall <=> InstallState.promptEvent # NoEvent

C30_Witness ==
    \E c1, c2 \in 1..MaxClick :
        /\ clicks[c1].pc = "done"
        /\ clicks[c1].ev = 1
        /\ ~clicks[c1].again
        /\ clicks[c2].pc = "prompting"
        /\ clicks[c2].ev = 2
        /\ InstallState.isInstalled
        /\ ~InstallState.canInstall
        /\ InstallState.promptEvent = NoEvent

\* C31: whenever the install button is enabled the app is not marked
\* installed and a prompt event is held: isInstalled is false, canInstall is
\* true and promptEvent is not null.
C31_EnabledButtonHasPrompt ==
    btnEnabled => UpdateInstallUI(InstallState)

\* The activate operation of the instance is over and no other instance is
\* running: the old deployment has no write in flight.
AloneAfterActivate == activatePc = "done" /\ oldWrite \in { "none", "settled" }

\* C32, as stated: once activate has completed and no other instance is
\* running, the namespace set is within {CACHE_NAME}.
C32_OnlyCurrentNamespace ==
    AloneAfterActivate => SeqToSet(cacheNames) \subseteq { CACHE_NAME }

\* C32, amended: once activate has completed and no other instance is
\* running, no step of a fetch handler creates, removes or writes a namespace
\* other than CACHE_NAME: the only namespace ever added is CACHE_NAME, by the
\* caches.open of an opportunistic write, so a namespace set within
\* {CACHE_NAME} stays within it; a namespace that outlived activate (a failed
\* deletion, a late write of the old deployment) is changed by nothing but a
\* deletion of the activate listener that was still in flight.
C32_FetchKeepsNamespaces ==
    [][ AloneAfterActivate
        => /\ SeqToSet(cacheNames') \subseteq SeqToSet(cacheNames) \cup { CACHE_NAME }
           /\ SeqToSet(cacheNames') # SeqToSet(cacheNames)
                => \/ /\ cacheNames' = Append(cacheNames, CACHE_NAME)
                      /\ \E h \in Handlers : WriteOpens(h)
                   \/ \E n \in AllNames \ { CACHE_NAME } :
                        /\ DeleteCompletes(n)
                        /\ cacheNames' = CachesDeleteNames(cacheNames, n)
           /\ \A n \in AllNames \ { CACHE_NAME } :
                cacheData'[n] # cacheData[n] => DeleteCompletes(n)
           /\ cacheData'[CACHE_NAME] # cacheData[CACHE_NAME]
                => \E h \in Handlers : PutCompletes(h) ]_vars

C32_Witness ==
    /\ AloneAfterActivate
    /\ installFailed
    /\ cacheNames = << CACHE_NAME >>
    /\ \E h \in Handlers : handlers[h].write = "done"

(***************************************************************************)
(* Properties of the push and notificationclick listeners                  *)
(***************************************************************************)
\* C33: every push event makes exactly one showNotification call; with no
\* payload the default title, body and icon are shown; with a JSON payload
\* its title, body and icon are shown where it has them and the defaults
\* elsewhere; with a payload that is not JSON the payload text is the body;
\* a failure of showNotification is logged and the promise given to
\* event.waitUntil is not rejected.
C33_PushShowsOneNotification ==
    push # << >>
      => LET ev == push[1] IN
         /\ ev.calls = 1
         /\ ev.data = NoPayload
              => ev.shown = Notification(DEFAULT_TITLE, DEFAULT_BODY, DEFAULT_ICON)
         /\ ev.data # NoPayload /\ ~JsonThrows(ev.data)
              => ev.shown = Notification(OrElse(ev.data.title, DEFAULT_TITLE),
                                         OrElse(ev.data.body, DEFAULT_BODY),
                                         OrElse(ev.data.icon, DEFAULT_ICON))
         /\ ev.data # NoPayload /\ JsonThrows(ev.data)
              => ev.shown = Notification(DEFAULT_TITLE, Text(ev.data), DEFAULT_ICON)
         /\ ev.result # "rejected"
         /\ ev.failed => ev.logged

C36_SubscribeOnlyWhenGranted ==
    /\ [] ( notifyReq # << >>
              => /\ notifyReq[1].subscribeCalls <= 1
                 /\ notifyReq[1].subscribeCalls = 1
                      => PushState.isSupported /\ notifyReq[1].permission = "granted"
                 /\ notifyReq[1].subscribed # "none" => notifyReq[1].subscribeCalls = 1 )
    /\ [][ notifyReq' # notifyReq /\ PushState'.subscription # PushState.subscription
             => /\ notifyReq[1].pc = "subscribe"
                /\ notifyReq[1].permission = "granted"
                /\ notifyReq'[1].subscribed = "ok" ]_vars

C36_Witness ==
    /\ notifyReq # << >>
    /\ notifyReq[1].n = 2
    /\ notifyReq[1].subscribed = "ok"
    /\ PushState.subscription = 2
    /\ PushState.permission = "granted"

\* C37: unsubscribeFromPush returns true only when the platform unsubscribe
\* answered true, and then the subscription is cleared and the stored item
\* removed; a step of it clears PushState.subscription or removes the stored
\* item only when the platform unsubscribe answered true; with no
\* subscription, with the answer false and with a rejection it returns false
\* and leaves both as they are.
C37_UnsubscribeOnlyOnSuccess ==
    [][ unsub' # unsub
          => /\ unsub'[1].ret = "true"
                  => /\ unsub'[1].out = "true"
                     /\ PushState'.subscription = NoSubscription
                     /\ PUSH_SUBSCRIPTION \notin localStorage'
             /\ ( PushState' # PushState \/ localStorage' # localStorage )
                  => unsub'[1].out = "true"
             /\ unsub'[1].pc = "done" /\ unsub'[1].out # "true"
                  => /\ unsub'[1].ret = "false"
                     /\ UNCHANGED << PushState, localStorage >> ]_vars

C37_Witness ==
    /\ unsub # << >>
    /\ unsub[1].ret = "true"
    /\ notifyReq # << >>
    /\ notifyReq[1].subscribed = "ok"
    /\ PushState.subscription = NoSubscription

====
